---- MODULE Spec2Model ----
(***************************************************************************)
(* Finger Invaders: press detection, rolling frame buffer and guided      *)
(* calibration (tracking/hand_tracker.py, tracking/calibration.py,        *)
(* tracking/leap_controller.py).                                          *)
(*                                                                         *)
(* Time is the wall clock in integer milliseconds.  Angles are integer    *)
(* degrees; averages are exact rationals [num, den] in lowest terms.      *)
(* A Python Optional is a sequence of length 0 (None) or 1 (a value).     *)
(***************************************************************************)
EXTENDS Integers, Sequences, FiniteSets, TLC

(***************************************************************************)
(* Program constants                                                       *)
(***************************************************************************)
FINGER_NAMES ==
    << "left_pinky", "left_ring", "left_middle", "left_index", "left_thumb",
       "right_thumb", "right_index", "right_middle", "right_ring", "right_pinky" >>

LEFT_FINGERS ==
    << "left_pinky", "left_ring", "left_middle", "left_index", "left_thumb" >>

RIGHT_FINGERS ==
    << "right_thumb", "right_index", "right_middle", "right_ring", "right_pinky" >>

\* order of hand['fingers'] as built by the sensor adapter
finger_names == << "thumb", "index", "middle", "ring", "pinky" >>

HandTypes == << "left", "right" >>

PRESS_DEBOUNCE_TIME == 200
FINGER_PRESS_ANGLE_THRESHOLD == 30
BUFFER_DURATION_MS == 1000
FRAME_SAMPLE_RATE_MS == 16

\* deque(maxlen=int(BUFFER_DURATION_MS / FRAME_SAMPLE_RATE_MS))
BufferMaxLen == BUFFER_DURATION_MS \div FRAME_SAMPLE_RATE_MS

(***************************************************************************)
(* Bounds of the model                                                     *)
(***************************************************************************)
\* wall-clock reading (ms) when the objects are constructed
StartTime == 1000
\* horizon (ms after StartTime) of the press-detector specification
MaxPressTime == 300
\* horizon (ms after StartTime) of the frame-buffer specification
MaxBufferTime == 1080
\* number of times the tick period may change in the frame-buffer specification
MaxRateChanges == 0
\* horizon (ms after StartTime) of the calibration specification
MaxCalibTime == 36000
\* horizon (ms after StartTime) of the baseline specification
MaxBaselineTime == 32100
\* horizon (ms in the finger phase) of the hold specification
MaxHoldTime == 1300

(***************************************************************************)
(* Helpers                                                                 *)
(***************************************************************************)
None == << >>
Some(v) == << v >>
IsNone(o) == Len(o) = 0
Val(o) == o[1]

Range(s) == { s[i] : i \in 1..Len(s) }
Last(s) == s[Len(s)]

FingerSet == Range(FINGER_NAMES)
ShortSet == Range(finger_names)
HandSet == Range(HandTypes)

\* f"{hand_type}_{finger_name}"
FullName(hand_type, finger_name) == hand_type \o "_" \o finger_name

\* hand of a full finger name, and its name within the hand
HandOfTable ==
    [ left_pinky |-> "left", left_ring |-> "left", left_middle |-> "left",
      left_index |-> "left", left_thumb |-> "left",
      right_thumb |-> "right", right_index |-> "right", right_middle |-> "right",
      right_ring |-> "right", right_pinky |-> "right" ]

ShortOfTable ==
    [ left_pinky |-> "pinky", left_ring |-> "ring", left_middle |-> "middle",
      left_index |-> "index", left_thumb |-> "thumb",
      right_thumb |-> "thumb", right_index |-> "index", right_middle |-> "middle",
      right_ring |-> "ring", right_pinky |-> "pinky" ]

HandOf(full_name) == HandOfTable[full_name]

ShortOf(full_name) == ShortOfTable[full_name]

RECURSIVE Gcd(_, _)
Gcd(a, b) == IF b = 0 THEN a ELSE Gcd(b, a % b)

Abs(a) == IF a < 0 THEN -a ELSE a

\* exact value of num/den (den > 0), in lowest terms
Rat(num, den) ==
    LET g == Gcd(Abs(num), den)
    IN  IF g = 0 THEN [num |-> 0, den |-> 1]
        ELSE [num |-> num \div g, den |-> den \div g]

RatInt(n) == [num |-> n, den |-> 1]

RECURSIVE SumSeq(_)
SumSeq(s) == IF s = << >> THEN 0 ELSE s[1] + SumSeq(Tail(s))

(***************************************************************************)
(* Angle Estimator: HandTracker._calculate_flexion_angle                   *)
(* Bone directions are integer vectors; acos is exact on the cosines that *)
(* these vectors produce.                                                  *)
(***************************************************************************)
Dot(a, b) == a[1] * b[1] + a[2] * b[2] + a[3] * b[3]

\* degrees(acos(d / sqrt(q))) for d*d/q in {0, 1/4, 1/2, 3/4, 1}
AcosDeg(d, q) ==
    CASE d = 0          -> 90
      [] d * d = q      -> IF d > 0 THEN 0 ELSE 180
      [] 4 * d * d = 3 * q -> IF d > 0 THEN 30 ELSE 150
      [] 2 * d * d = q  -> IF d > 0 THEN 45 ELSE 135
      [] 4 * d * d = q  -> IF d > 0 THEN 60 ELSE 120

calculate_flexion_angle(dir1, dir2) ==
    LET m1 == Dot(dir1, dir1)
        m2 == Dot(dir2, dir2)
    IN  \* normalize() returns (0, 0, 0) for a near-zero vector: dot = 0
        IF m1 = 0 \/ m2 = 0 THEN AcosDeg(0, 1)
        ELSE AcosDeg(Dot(dir1, dir2), m1 * m2)

(***************************************************************************)
(* Sensor frames (LeapController._process_frame)                           *)
(***************************************************************************)
DirUp == << 0, 1, 0 >>
DirDiag == << 0, 1, 1 >>

RelaxedFinger ==
    [ tip_position |-> << 0, 200, 0 >>,
      proximal_direction |-> DirUp,
      intermediate_direction |-> DirUp ]

BentFinger ==
    [ tip_position |-> << 0, 150, 0 >>,
      proximal_direction |-> DirUp,
      intermediate_direction |-> DirDiag ]

\* a visible hand whose fingers in `bent` are flexed
HandRecord(bent) ==
    Some([ palm_position |-> << 0, 150, 0 >>,
           fingers |->
             [ thumb |-> IF "thumb" \in bent THEN BentFinger ELSE RelaxedFinger,
               index |-> IF "index" \in bent THEN BentFinger ELSE RelaxedFinger,
               middle |-> IF "middle" \in bent THEN BentFinger ELSE RelaxedFinger,
               ring |-> IF "ring" \in bent THEN BentFinger ELSE RelaxedFinger,
               pinky |-> IF "pinky" \in bent THEN BentFinger ELSE RelaxedFinger ] ])

HandsData(l, r) == [ left |-> l, right |-> r ]

(***************************************************************************)
(* State                                                                   *)
(***************************************************************************)
VARIABLES
    now,                      \* last reading of time.time() * 1000
    \* HandTracker
    hands_visible,
    finger_states,
    finger_positions,
    finger_relative_y,
    finger_angles,
    last_press_time,
    press_events,
    frame_buffer,
    last_buffer_sample_time,
    last_press_timestamp_ms,
    hands_missing_since,
    tracker_baseline_angles,  \* self.baseline_angles of the tracker
    \* LeapController and the two threads that use it
    leap_hands_data,          \* self.hands_data
    leap_lock,                \* owner of self._lock: "free", "sensor", "tick"
    last_frame_id,
    sensor_pc,                \* position of the callback thread in _on_tracking
    sensor_event,             \* the event it is processing
    new_hands,                \* local of _process_frame
    reader_pc,                \* position of the main thread in update()
    reader_left,              \* the value it has read for 'left'
    read_result,              \* the dict update() returned last
    published,                \* every value hands_data has had
    \* FingerInvaders (main.py)
    game_state,               \* self.game_engine.state
    waiting_countdown,        \* None, or the seconds left times CountdownScale
    wait_log,                 \* the ticks since the waiting state was entered
    loop_pc,                  \* position of the main thread in _update_calibration
    loop_tracked,             \* the dict HandTracker.update read in this tick
    \* CalibrationManager
    calibration_file,         \* contents of the file on disk, None if absent
    calibration_data,
    is_calibrated,
    thresholds,
    angle_thresholds,
    baseline_angles,
    calibrating,
    current_finger_index,
    calibration_phase,
    countdown_start,
    baseline_samples,
    baseline_start_time,
    left_baseline_captured,
    right_baseline_captured,
    palm_position_samples,
    calibrated_palm_positions,
    current_finger_angle,
    current_finger_angle_from_baseline,
    last_sample_time,
    phase_start_time,
    threshold_reached_time,
    still_calibrating,        \* last value returned by update_calibration
    last_call,                \* the CalibrationManager method called last
    file_at_start,            \* the file as start_calibration found it
    calib_log,                \* the calls of the manager, in order
    \* what the callers have seen
    tick_log,                 \* per update(): time and the sensor snapshot read
    press_log,                \* every PressEvent returned by update() so far
    window,                   \* last result of get_frames_in_window
    window_args,              \* arguments of that call
    probe                     \* last call of a function that changes no state

leapVars ==
    << leap_hands_data, leap_lock, last_frame_id, sensor_pc, sensor_event,
       new_hands, reader_pc, reader_left, read_result, published >>

\* the attributes of the tracker
trackerFields ==
    << hands_visible, finger_states, finger_positions, finger_relative_y,
       finger_angles, last_press_time, press_events, frame_buffer,
       last_buffer_sample_time, last_press_timestamp_ms, hands_missing_since,
       tracker_baseline_angles >>

\* the attributes of the game loop
mainVars == << game_state, waiting_countdown, wait_log >>

\* one tick of the calibration state of the game loop
loopVars == << loop_pc, loop_tracked >>

\* the tracker, the controller it reads and the game loop that owns them
trackerVars == << trackerFields, leapVars, mainVars, loopVars >>

\* the calibration profile
profileVars ==
    << calibration_data, is_calibrated, thresholds, angle_thresholds,
       baseline_angles, calibrated_palm_positions >>

\* the state of the calibration procedure
procedureVars ==
    << calibrating, current_finger_index, calibration_phase, countdown_start,
       baseline_samples, baseline_start_time, left_baseline_captured,
       right_baseline_captured, palm_position_samples, current_finger_angle,
       current_finger_angle_from_baseline, last_sample_time, phase_start_time,
       threshold_reached_time >>

calibVars == << calibration_file, profileVars, procedureVars, still_calibrating >>

calibLog == << last_call, file_at_start, calib_log >>

vars ==
    << now, trackerVars, calibVars, calibLog, tick_log, press_log, window,
       window_args, probe >>

(***************************************************************************)
(* CalibrationManager getters                                              *)
(***************************************************************************)
get_angle_threshold(full_name) == angle_thresholds[full_name]

get_baseline_angle(full_name) == baseline_angles[full_name]

(***************************************************************************)
(* CalibrationManager: constants of __init__                               *)
(***************************************************************************)
\* FINGER_PRESS_THRESHOLD = 0.3
FINGER_PRESS_THRESHOLD == [ num |-> 3, den |-> 10 ]

\* seconds in the source, milliseconds here
countdown_duration == 5000
baseline_duration == 10000
sample_delay == 50
hold_time_required == 500

NoSamples == [ f \in FingerSet |-> << >> ]
\* the empty dict of calibration_data: None stands for a key that is absent
NoData == [ f \in FingerSet |-> None ]

(***************************************************************************)
(* json.dump and json.load on the values of a profile: None is written as  *)
(* null, a number as a number, a tuple as an array, a dict as an object    *)
(* with the same keys; null is read as None, an array as a list            *)
(***************************************************************************)
JNull == [ json |-> "null" ]
JNumber(v) == [ json |-> "number", value |-> v ]
JArray(items) == [ json |-> "array", items |-> items ]

\* a float or None
DumpNumber(o) == IF IsNone(o) THEN JNull ELSE JNumber(Val(o))

LoadNumber(j) == IF j.json = "null" THEN None ELSE Some(j.value)

\* a tuple of floats or None
DumpPosition(o) ==
    IF IsNone(o) THEN JNull
    ELSE JArray([ i \in 1..Len(Val(o)) |-> JNumber(Val(o)[i]) ])

\* variant: null is read as the origin
LoadPosition_OriginForNull(j) ==
    IF j.json = "null" THEN Some(<< RatInt(0), RatInt(0), RatInt(0) >>)
    ELSE Some([ i \in 1..Len(j.items) |-> j.items[i].value ])

LoadPosition(j) ==
    IF j.json = "null" THEN None
    ELSE Some([ i \in 1..Len(j.items) |-> j.items[i].value ])

\* an entry of calibration_data, a dict of numbers; None is a missing key
DumpEntry(o) ==
    IF IsNone(o) THEN None
    ELSE Some([ k \in DOMAIN Val(o) |-> JNumber(Val(o)[k]) ])

LoadEntry(o) ==
    IF IsNone(o) THEN None
    ELSE Some([ k \in DOMAIN Val(o) |-> Val(o)[k].value ])

\* the document _save_calibration dumps
SavedProfile(th, ath, base, data, palms, timestamp) ==
    [ thresholds |-> [ f \in DOMAIN th |-> JNumber(th[f]) ],
      angle_thresholds |-> [ f \in DOMAIN ath |-> JNumber(ath[f]) ],
      baseline_angles |-> [ f \in DOMAIN base |-> DumpNumber(base[f]) ],
      calibration_data |-> [ f \in DOMAIN data |-> DumpEntry(data[f]) ],
      palm_positions |-> [ h \in DOMAIN palms |-> DumpPosition(palms[h]) ],
      timestamp |-> JNumber(timestamp) ]

(***************************************************************************)
(* CalibrationManager.__init__ and _load_calibration                       *)
(* `file` is the content of the calibration file, None if there is none.   *)
(***************************************************************************)
\* the attributes _load_calibration assigns from the document
LoadedProfile(document) ==
    [ calibration_data |->
          [ f \in DOMAIN document.calibration_data |->
              LoadEntry(document.calibration_data[f]) ],
      thresholds |->
          [ f \in DOMAIN document.thresholds |-> document.thresholds[f].value ],
      angle_thresholds |->
          [ f \in DOMAIN document.angle_thresholds |->
              document.angle_thresholds[f].value ],
      baseline_angles |->
          [ f \in DOMAIN document.baseline_angles |->
              LoadNumber(document.baseline_angles[f]) ],
      calibrated_palm_positions |->
          [ h \in DOMAIN document.palm_positions |->
              LoadPosition(document.palm_positions[h]) ] ]

\* the attributes of a manager after __init__
NewManager(file) ==
    [ calibration_data |->
          IF IsNone(file) THEN NoData
          ELSE LoadedProfile(Val(file)).calibration_data,
      is_calibrated |-> ~IsNone(file),
      thresholds |->
          IF IsNone(file) THEN [ f \in FingerSet |-> FINGER_PRESS_THRESHOLD ]
          ELSE LoadedProfile(Val(file)).thresholds,
      angle_thresholds |->
          IF IsNone(file) THEN [ f \in FingerSet |-> FINGER_PRESS_ANGLE_THRESHOLD ]
          ELSE LoadedProfile(Val(file)).angle_thresholds,
      baseline_angles |->
          IF IsNone(file) THEN [ f \in FingerSet |-> None ]
          ELSE LoadedProfile(Val(file)).baseline_angles,
      calibrated_palm_positions |->
          IF IsNone(file) THEN [ left |-> None, right |-> None ]
          ELSE LoadedProfile(Val(file)).calibrated_palm_positions ]

ManagerInit(file) ==
    /\ calibration_file = file
    /\ calibration_data = NewManager(file).calibration_data
    /\ is_calibrated = NewManager(file).is_calibrated
    /\ thresholds = NewManager(file).thresholds
    /\ angle_thresholds = NewManager(file).angle_thresholds
    /\ baseline_angles = NewManager(file).baseline_angles
    /\ calibrated_palm_positions = NewManager(file).calibrated_palm_positions
    /\ calibrating = FALSE
    /\ current_finger_index = 0
    /\ calibration_phase = "idle"
    /\ countdown_start = 0
    /\ baseline_samples = NoSamples
    /\ baseline_start_time = 0
    /\ left_baseline_captured = FALSE
    /\ right_baseline_captured = FALSE
    /\ palm_position_samples = [ left |-> << >>, right |-> << >> ]
    /\ current_finger_angle = 0
    /\ current_finger_angle_from_baseline = RatInt(0)
    /\ last_sample_time = 0
    /\ phase_start_time = 0
    /\ threshold_reached_time = None
    /\ still_calibrating = None
    /\ last_call = "__init__"
    /\ file_at_start = file
    /\ calib_log = << >>

\* a new session: the objects are constructed again and the manager reads
\* the file the last session left
ManagerRestart ==
    /\ calibration_data' = NewManager(calibration_file).calibration_data
    /\ is_calibrated' = NewManager(calibration_file).is_calibrated
    /\ thresholds' = NewManager(calibration_file).thresholds
    /\ angle_thresholds' = NewManager(calibration_file).angle_thresholds
    /\ baseline_angles' = NewManager(calibration_file).baseline_angles
    /\ calibrated_palm_positions' =
          NewManager(calibration_file).calibrated_palm_positions
    /\ calibrating' = FALSE
    /\ current_finger_index' = 0
    /\ calibration_phase' = "idle"
    /\ countdown_start' = 0
    /\ baseline_samples' = NoSamples
    /\ baseline_start_time' = 0
    /\ left_baseline_captured' = FALSE
    /\ right_baseline_captured' = FALSE
    /\ palm_position_samples' = [ left |-> << >>, right |-> << >> ]
    /\ current_finger_angle' = 0
    /\ current_finger_angle_from_baseline' = RatInt(0)
    /\ last_sample_time' = 0
    /\ phase_start_time' = 0
    /\ threshold_reached_time' = None
    /\ still_calibrating' = None
    /\ last_call' = "__init__"
    /\ file_at_start' = calibration_file
    /\ UNCHANGED << now, calibration_file, calib_log >>

\* entry of calibration_data written by _calibrate_current_finger
DataPoint(baseline, current_angle, angle_from_baseline) ==
    [ baseline_angle |-> baseline,
      calibrated_angle |-> current_angle,
      angle_threshold |-> FINGER_PRESS_ANGLE_THRESHOLD,
      recorded_press_angle |-> angle_from_baseline ]

\* a profile left on disk by an earlier session: every finger recorded with
\* baseline 10 and a press at 45 degrees, both palms at (0, 150, 0)
EarlierProfile ==
    SavedProfile([ f \in FingerSet |-> FINGER_PRESS_THRESHOLD ],
                 [ f \in FingerSet |-> FINGER_PRESS_ANGLE_THRESHOLD ],
                 [ f \in FingerSet |-> Some(RatInt(10)) ],
                 [ f \in FingerSet |->
                     Some(DataPoint(RatInt(10), 45, RatInt(35))) ],
                 [ left |-> Some(<< RatInt(0), RatInt(150), RatInt(0) >>),
                   right |-> Some(<< RatInt(0), RatInt(150), RatInt(0) >>) ],
                 StartTime - 1)

(***************************************************************************)
(* CalibrationManager.check_hand_positions                                 *)
(* current positions are integer vectors, calibrated positions rational    *)
(* ones; the distance is carried as its square, and "distance <=           *)
(* tolerance" is decided on the squares                                    *)
(***************************************************************************)
DEFAULT_TOLERANCE == 50

\* (current_pos[0] - calibrated_pos[0]) ** 2 + ... as a rational
SquaredDistance(current_pos, calibrated_pos) ==
    LET d(i) == calibrated_pos[i].den
        diff(i) == current_pos[i] * d(i) - calibrated_pos[i].num
    IN  Rat(diff(1) * diff(1) * d(2) * d(2) * d(3) * d(3)
              + diff(2) * diff(2) * d(1) * d(1) * d(3) * d(3)
              + diff(3) * diff(3) * d(1) * d(1) * d(2) * d(2),
            d(1) * d(1) * d(2) * d(2) * d(3) * d(3))

\* "distance <= tolerance"
WithinTolerance_Strict(distance_squared, tolerance) ==
    distance_squared.num < tolerance * tolerance * distance_squared.den

WithinTolerance(distance_squared, tolerance) ==
    distance_squared.num <= tolerance * tolerance * distance_squared.den

check_hand_positions(current_hand_data, tolerance) ==
    LET calibrated_pos(hand_type) == calibrated_palm_positions[hand_type]
        current_hand(hand_type) == current_hand_data[hand_type]
        measured(hand_type) ==
            ~IsNone(calibrated_pos(hand_type)) /\ ~IsNone(current_hand(hand_type))
        distance_squared(hand_type) ==
            SquaredDistance(Val(current_hand(hand_type)).palm_position,
                            Val(calibrated_pos(hand_type)))
        in_position(hand_type) ==
            measured(hand_type)
               /\ WithinTolerance(distance_squared(hand_type), tolerance)
        left_ok == in_position("left") \/ IsNone(calibrated_pos("left"))
        right_ok == in_position("right") \/ IsNone(calibrated_pos("right"))
    IN  [ left_in_position |-> in_position("left"),
          right_in_position |-> in_position("right"),
          both_in_position |-> left_ok /\ right_ok,
          left_distance_squared |->
             IF measured("left") THEN Some(distance_squared("left")) ELSE None,
          right_distance_squared |->
             IF measured("right") THEN Some(distance_squared("right")) ELSE None ]

(***************************************************************************)
(* CalibrationManager.start_calibration                                    *)
(***************************************************************************)
start_calibration(current_time) ==
    /\ current_time >= now
    /\ now' = current_time
    /\ calibrating' = TRUE
    /\ current_finger_index' = 0
    /\ calibration_phase' = "countdown"
    /\ countdown_start' = current_time
    /\ baseline_samples' = NoSamples
    /\ palm_position_samples' = [ left |-> << >>, right |-> << >> ]
    /\ left_baseline_captured' = FALSE
    /\ right_baseline_captured' = FALSE
    /\ calibration_data' = NoData
    /\ phase_start_time' = current_time
    /\ threshold_reached_time' = None
    /\ current_finger_angle' = 0
    /\ current_finger_angle_from_baseline' = RatInt(0)
    /\ UNCHANGED << calibration_file, is_calibrated, thresholds, angle_thresholds,
                    baseline_angles, calibrated_palm_positions,
                    baseline_start_time, last_sample_time, still_calibrating >>

(***************************************************************************)
(* CalibrationManager.get_current_finger                                   *)
(***************************************************************************)
get_current_finger ==
    IF calibration_phase # "calibrating_finger" THEN None
    ELSE IF current_finger_index < Len(FINGER_NAMES)
         THEN Some(FINGER_NAMES[current_finger_index + 1])
         ELSE None

(***************************************************************************)
(* CalibrationManager._save_calibration, with the primed profile; an       *)
(* IOError is caught and leaves the file as it was                         *)
(***************************************************************************)
save_calibration(current_time) ==
    \/ calibration_file' =
          Some(SavedProfile(thresholds', angle_thresholds', baseline_angles',
                            calibration_data', calibrated_palm_positions',
                            current_time))
    \/ UNCHANGED calibration_file

(***************************************************************************)
(* CalibrationManager._complete_calibration                                *)
(***************************************************************************)
complete_calibration(current_time) ==
    /\ calibrating' = FALSE
    /\ calibration_phase' = "complete"
    /\ is_calibrated' = TRUE
    /\ save_calibration(current_time)

(***************************************************************************)
(* CalibrationManager._update_baseline_capture                             *)
(***************************************************************************)
\* "avg = sum(samples) / len(samples)", 0.0 when there are no samples
Average_LastSample(samples) ==
    IF samples = << >> THEN RatInt(0) ELSE RatInt(samples[Len(samples)])

Average(samples) ==
    IF samples = << >> THEN RatInt(0)
    ELSE Rat(SumSeq(samples), Len(samples))

Component(points, c) == [ i \in 1..Len(points) |-> points[i][c] ]

AveragePalm(points) ==
    << Average(Component(points, 1)), Average(Component(points, 2)),
       Average(Component(points, 3)) >>

\* variant: the capture ends after half its duration
BaselineTimeUp_Early(current_time) ==
    current_time - baseline_start_time >= baseline_duration \div 2

\* "if time_elapsed >= self.baseline_duration"
BaselineTimeUp(current_time) ==
    current_time - baseline_start_time >= baseline_duration

\* variant: a visible hand is sampled in every update
TakesSample_NoDelay(hand, current_time) == ~IsNone(hand)

\* "if hand is not None and current_time - self.last_sample_time >= self.sample_delay"
TakesSample(hand, current_time) ==
    ~IsNone(hand) /\ current_time - last_sample_time >= sample_delay

\* the phase entered when the capture for hand_type is over
PhaseAfterBaseline_SkipRight(hand_type) == "calibrating_finger"

PhaseAfterBaseline(hand_type) ==
    IF hand_type = "left" THEN "baseline_right" ELSE "calibrating_finger"

\* variant: a finger without samples keeps no baseline
CapturedBaseline_NoDefault(samples) ==
    IF samples = << >> THEN None ELSE Some(Average(samples))

\* "if samples: ... self.baseline_angles[finger_name] = avg" and
\* "else: self.baseline_angles[finger_name] = 0.0"
CapturedBaseline(samples) ==
    IF samples # << >> THEN Some(Average(samples)) ELSE Some(RatInt(0))

update_baseline_capture(hand_data, angles, current_time, hand_type) ==
    LET fingers == IF hand_type = "left" THEN Range(LEFT_FINGERS)
                   ELSE Range(RIGHT_FINGERS)
        hand == hand_data[hand_type]
    IN  /\ still_calibrating' = Some(TRUE)
        /\ IF BaselineTimeUp(current_time)
           THEN /\ baseline_angles' =
                      [ f \in FingerSet |->
                          IF f \in fingers THEN CapturedBaseline(baseline_samples[f])
                          ELSE baseline_angles[f] ]
                /\ calibrated_palm_positions' =
                      IF palm_position_samples[hand_type] # << >>
                      THEN [ calibrated_palm_positions EXCEPT
                               ![hand_type] =
                                  Some(AveragePalm(palm_position_samples[hand_type])) ]
                      ELSE calibrated_palm_positions
                /\ calibration_phase' = PhaseAfterBaseline(hand_type)
                /\ IF hand_type = "left"
                   THEN /\ left_baseline_captured' = TRUE
                        /\ countdown_start' = current_time
                        /\ baseline_start_time' = current_time
                        /\ UNCHANGED << right_baseline_captured,
                                        current_finger_index, phase_start_time >>
                   ELSE /\ right_baseline_captured' = TRUE
                        /\ current_finger_index' = 0
                        /\ phase_start_time' = current_time
                        /\ UNCHANGED << left_baseline_captured, countdown_start,
                                        baseline_start_time >>
                /\ UNCHANGED << baseline_samples, palm_position_samples,
                                last_sample_time >>
           ELSE /\ IF TakesSample(hand, current_time)
                   THEN /\ last_sample_time' = current_time
                        /\ baseline_samples' =
                              [ f \in FingerSet |->
                                  IF f \in fingers
                                  THEN Append(baseline_samples[f], angles[f])
                                  ELSE baseline_samples[f] ]
                        /\ palm_position_samples' =
                              [ palm_position_samples EXCEPT
                                  ![hand_type] = Append(@, Val(hand).palm_position) ]
                   ELSE UNCHANGED << last_sample_time, baseline_samples,
                                     palm_position_samples >>
                /\ UNCHANGED << baseline_angles, calibrated_palm_positions,
                                left_baseline_captured, right_baseline_captured,
                                calibration_phase, countdown_start,
                                baseline_start_time, current_finger_index,
                                phase_start_time >>
        /\ UNCHANGED << calibration_file, calibration_data, is_calibrated,
                        thresholds, angle_thresholds, calibrating,
                        current_finger_angle, current_finger_angle_from_baseline,
                        threshold_reached_time >>

(***************************************************************************)
(* CalibrationManager._update_finger_calibration, with                     *)
(* _calibrate_current_finger and _advance_to_next_finger                   *)
(***************************************************************************)
\* "angle_from_baseline = current_angle - baseline"
AngleFromBaseline(current_angle, baseline) ==
    Rat(current_angle * baseline.den - baseline.num, baseline.den)

\* "if angle_from_baseline >= FINGER_PRESS_ANGLE_THRESHOLD"
ReachedThreshold(angle_from_baseline) ==
    angle_from_baseline.num >= FINGER_PRESS_ANGLE_THRESHOLD * angle_from_baseline.den

\* "if current_time - self.threshold_reached_time >= self.hold_time_required"
HeldLongEnough_NoHold(current_time, reached_time) == TRUE

HeldLongEnough(current_time, reached_time) ==
    current_time - reached_time >= hold_time_required

\* "if self.current_finger_index >= len(FINGER_NAMES)" of _advance_to_next_finger
AllFingersDone_AfterFirst(finger_index) == finger_index >= 1

AllFingersDone(finger_index) == finger_index >= Len(FINGER_NAMES)

\* "self.current_finger_index += 1" of _advance_to_next_finger
NextFingerIndex_SkipOne(finger_index) == finger_index + 2

NextFingerIndex(finger_index) == finger_index + 1

\* "if hand_data.get(hand_type) is None"
HandMissing_Never(hand_data, hand_type) == FALSE

HandMissing(hand_data, hand_type) == IsNone(hand_data[hand_type])

update_finger_calibration(hand_data, angles, current_time) ==
    LET current_finger == get_current_finger
        f == Val(current_finger)
        hand_type == HandOf(f)
        current_angle == angles[f]
        baseline == Val(baseline_angles[f])
        angle_from_baseline == AngleFromBaseline(current_angle, baseline)
        reached_time == IF IsNone(threshold_reached_time) THEN current_time
                        ELSE Val(threshold_reached_time)
    IN  IF IsNone(current_finger)
        THEN /\ complete_calibration(current_time)
             /\ still_calibrating' = Some(FALSE)
             /\ UNCHANGED << calibration_data, thresholds, angle_thresholds,
                             baseline_angles, calibrated_palm_positions,
                             current_finger_index, countdown_start,
                             baseline_samples, baseline_start_time,
                             left_baseline_captured, right_baseline_captured,
                             palm_position_samples, current_finger_angle,
                             current_finger_angle_from_baseline, last_sample_time,
                             phase_start_time, threshold_reached_time >>
        ELSE IF HandMissing(hand_data, hand_type)
        THEN /\ threshold_reached_time' = None
             /\ still_calibrating' = Some(TRUE)
             /\ UNCHANGED << calibration_file, profileVars, calibrating,
                             current_finger_index, calibration_phase,
                             countdown_start, baseline_samples,
                             baseline_start_time, left_baseline_captured,
                             right_baseline_captured, palm_position_samples,
                             current_finger_angle,
                             current_finger_angle_from_baseline, last_sample_time,
                             phase_start_time >>
        ELSE /\ still_calibrating' = Some(TRUE)
             /\ IF ReachedThreshold(angle_from_baseline)
                     /\ HeldLongEnough(current_time, reached_time)
                THEN \* _calibrate_current_finger, _advance_to_next_finger
                     /\ angle_thresholds' =
                           [ angle_thresholds EXCEPT
                               ![f] = FINGER_PRESS_ANGLE_THRESHOLD ]
                     /\ calibration_data' =
                           [ calibration_data EXCEPT
                               ![f] = Some(DataPoint(baseline, current_angle,
                                                     angle_from_baseline)) ]
                     /\ current_finger_index' = NextFingerIndex(current_finger_index)
                     /\ threshold_reached_time' = None
                     /\ current_finger_angle' = 0
                     /\ current_finger_angle_from_baseline' = RatInt(0)
                     /\ UNCHANGED << thresholds, baseline_angles,
                                     calibrated_palm_positions >>
                     /\ IF AllFingersDone(current_finger_index')
                        THEN /\ complete_calibration(current_time)
                             /\ UNCHANGED phase_start_time
                        ELSE /\ phase_start_time' = current_time
                             /\ UNCHANGED << calibration_file, is_calibrated,
                                             calibrating, calibration_phase >>
                ELSE /\ current_finger_angle' = current_angle
                     /\ current_finger_angle_from_baseline' = angle_from_baseline
                     /\ threshold_reached_time' =
                           IF ReachedThreshold(angle_from_baseline)
                           THEN Some(reached_time) ELSE None
                     /\ UNCHANGED << calibration_file, profileVars, calibrating,
                                     current_finger_index, calibration_phase,
                                     phase_start_time >>
             /\ UNCHANGED << countdown_start, baseline_samples,
                             baseline_start_time, left_baseline_captured,
                             right_baseline_captured, palm_position_samples,
                             last_sample_time >>

(***************************************************************************)
(* CalibrationManager.update_calibration                                   *)
(***************************************************************************)
\* variant: the countdown ends only after more than its duration
CountdownOver_Strict(current_time) ==
    current_time - countdown_start > countdown_duration

\* "if current_time - self.countdown_start >= self.countdown_duration"
CountdownOver(current_time) ==
    current_time - countdown_start >= countdown_duration

update_calibration(current_time, hand_data, angles) ==
    IF ~calibrating
    THEN /\ still_calibrating' = Some(FALSE)
         /\ UNCHANGED << now, calibration_file, profileVars, procedureVars >>
    ELSE /\ current_time >= now
         /\ now' = current_time
         /\ CASE calibration_phase = "countdown" ->
                   /\ IF CountdownOver(current_time)
                      THEN /\ calibration_phase' = "baseline_left"
                           /\ baseline_start_time' = current_time
                      ELSE UNCHANGED << calibration_phase, baseline_start_time >>
                   /\ still_calibrating' = Some(TRUE)
                   /\ UNCHANGED << calibration_file, profileVars, calibrating,
                                   current_finger_index, countdown_start,
                                   baseline_samples, left_baseline_captured,
                                   right_baseline_captured, palm_position_samples,
                                   current_finger_angle,
                                   current_finger_angle_from_baseline,
                                   last_sample_time, phase_start_time,
                                   threshold_reached_time >>
              [] calibration_phase = "baseline_left" ->
                   update_baseline_capture(hand_data, angles, current_time, "left")
              [] calibration_phase = "baseline_right" ->
                   update_baseline_capture(hand_data, angles, current_time, "right")
              [] calibration_phase = "calibrating_finger" ->
                   update_finger_calibration(hand_data, angles, current_time)
              [] OTHER ->
                   /\ still_calibrating' = Some(TRUE)
                   /\ UNCHANGED << calibration_file, profileVars, procedureVars >>

(***************************************************************************)
(* CalibrationManager.cancel_calibration                                   *)
(***************************************************************************)
cancel_calibration_KeepsHoldTimer ==
    /\ calibrating' = FALSE
    /\ calibration_phase' = "idle"
    /\ current_finger_index' = 0
    /\ baseline_samples' = NoSamples
    /\ UNCHANGED << now, calibration_file, profileVars, countdown_start,
                    baseline_start_time, left_baseline_captured,
                    right_baseline_captured, palm_position_samples,
                    current_finger_angle, current_finger_angle_from_baseline,
                    last_sample_time, phase_start_time, still_calibrating,
                    threshold_reached_time >>

cancel_calibration ==
    /\ calibrating' = FALSE
    /\ calibration_phase' = "idle"
    /\ current_finger_index' = 0
    /\ baseline_samples' = NoSamples
    /\ threshold_reached_time' = None
    /\ UNCHANGED << now, calibration_file, profileVars, countdown_start,
                    baseline_start_time, left_baseline_captured,
                    right_baseline_captured, palm_position_samples,
                    current_finger_angle, current_finger_angle_from_baseline,
                    last_sample_time, phase_start_time, still_calibrating >>

(***************************************************************************)
(* CalibrationManager.reset_calibration; os.remove may fail with an error  *)
(* that is caught, and the file is then left as it was                     *)
(***************************************************************************)
reset_calibration ==
    /\ calibration_data' = NoData
    /\ thresholds' = [ f \in FingerSet |-> FINGER_PRESS_THRESHOLD ]
    /\ angle_thresholds' = [ f \in FingerSet |-> FINGER_PRESS_ANGLE_THRESHOLD ]
    /\ baseline_angles' = [ f \in FingerSet |-> None ]
    /\ is_calibrated' = FALSE
    /\ \/ calibration_file' = None
       \/ UNCHANGED calibration_file
    /\ UNCHANGED << now, calibrated_palm_positions, procedureVars,
                    still_calibrating >>

(***************************************************************************)
(* LeapController: the callback thread runs _on_tracking for every frame   *)
(* of the sensor, the main thread runs update(); one step per statement    *)
(***************************************************************************)
NoHands == [ left |-> None, right |-> None ]

LeapInit ==
    /\ leap_hands_data = NoHands
    /\ leap_lock = "free"
    /\ last_frame_id = 0
    /\ sensor_pc = "idle"
    /\ sensor_event = None
    /\ new_hands = NoHands
    /\ reader_pc = "idle"
    /\ reader_left = None
    /\ read_result = None
    /\ published = { NoHands }

\* the record _process_frame builds for a hand of the frame frame_id; the
\* palm is at a place of its own in every frame
FrameHand(frame_id) ==
    Some([ Val(HandRecord({})) EXCEPT !.palm_position = << frame_id, 150, 0 >> ])

\* variant: the with statements do not wait for the lock
LockFree_Ignored(owner) == TRUE

\* a thread enters "with self._lock:" only when no thread holds the lock
LockFree(owner) == owner = "free"

\* "with self._lock:" entered by _on_tracking(event)
SensorAcquire(event) ==
    /\ sensor_pc = "idle"
    /\ LockFree(leap_lock)
    /\ leap_lock' = "sensor"
    /\ sensor_event' = Some(event)
    /\ sensor_pc' = "stamp"
    /\ UNCHANGED << leap_hands_data, last_frame_id, new_hands, reader_pc,
                    reader_left, read_result, published >>

\* "self.last_frame_id = event.tracking_frame_id"
SensorStamp ==
    /\ sensor_pc = "stamp"
    /\ last_frame_id' = Val(sensor_event).tracking_frame_id
    /\ sensor_pc' = "new_hands"
    /\ UNCHANGED << leap_hands_data, leap_lock, sensor_event, new_hands,
                    reader_pc, reader_left, read_result, published >>

\* "new_hands = {'left': None, 'right': None}"
SensorNewHands ==
    /\ sensor_pc = "new_hands"
    /\ new_hands' = NoHands
    /\ sensor_pc' = "hands"
    /\ UNCHANGED << leap_hands_data, leap_lock, last_frame_id, sensor_event,
                    reader_pc, reader_left, read_result, published >>

\* one pass of "for hand in event.hands": "new_hands[hand_type] = {...}"
SensorHand ==
    /\ sensor_pc = "hands"
    /\ Val(sensor_event).hands # << >>
    /\ new_hands' =
          [ new_hands EXCEPT ![Val(sensor_event).hands[1]] =
              FrameHand(Val(sensor_event).tracking_frame_id) ]
    /\ sensor_event' =
          Some([ Val(sensor_event) EXCEPT !.hands = Tail(Val(sensor_event).hands) ])
    /\ UNCHANGED << leap_hands_data, leap_lock, last_frame_id, sensor_pc,
                    reader_pc, reader_left, read_result, published >>

\* "self.hands_data = new_hands" after the loop
SensorPublish ==
    /\ sensor_pc = "hands"
    /\ Val(sensor_event).hands = << >>
    /\ leap_hands_data' = new_hands
    /\ published' = published \cup { new_hands }
    /\ sensor_pc' = "release"
    /\ UNCHANGED << leap_lock, last_frame_id, sensor_event, new_hands,
                    reader_pc, reader_left, read_result >>

\* the end of the with block of _on_tracking
SensorRelease ==
    /\ sensor_pc = "release"
    /\ leap_lock' = "free"
    /\ sensor_pc' = "idle"
    /\ sensor_event' = None
    /\ UNCHANGED << leap_hands_data, last_frame_id, new_hands, reader_pc,
                    reader_left, read_result, published >>

\* "with self._lock:" entered by update()
ReaderAcquire ==
    /\ reader_pc = "idle"
    /\ LockFree(leap_lock)
    /\ leap_lock' = "tick"
    /\ reader_pc' = "left"
    /\ UNCHANGED << leap_hands_data, last_frame_id, sensor_pc, sensor_event,
                    new_hands, reader_left, read_result, published >>

\* "self.hands_data.get('left')"
ReaderLeft ==
    /\ reader_pc = "left"
    /\ reader_left' = leap_hands_data["left"]
    /\ reader_pc' = "right"
    /\ UNCHANGED << leap_hands_data, leap_lock, last_frame_id, sensor_pc,
                    sensor_event, new_hands, read_result, published >>

\* "self.hands_data.get('right')", the dict is built, the lock is released
\* and the dict is returned
ReaderRight ==
    /\ reader_pc = "right"
    /\ read_result' = Some([ left |-> reader_left,
                             right |-> leap_hands_data["right"] ])
    /\ leap_lock' = "free"
    /\ reader_pc' = "idle"
    /\ UNCHANGED << leap_hands_data, last_frame_id, sensor_pc, sensor_event,
                    new_hands, reader_left, published >>

(***************************************************************************)
(* FingerInvaders: the states of the game loop that lead to a session.     *)
(* main.py names the state GameState.WAITING_FOR_HANDS; the class          *)
(* GameState of game/game_engine.py defines MENU and PLAYING but no        *)
(* member of that name, which is taken here as one more state value.       *)
(***************************************************************************)
MENU == "menu"

CALIBRATION_MENU == "calibration_menu"

CALIBRATING == "calibrating"
PLAYING == "playing"
WAITING_FOR_HANDS == "waiting_for_hands"

\* "dt = self.clock.tick(FPS) / 16.67" and "dt * 0.0167": a tick of ms
\* milliseconds takes ms * 167 / 166700 seconds off the countdown, which is
\* kept as a whole number of 1 / 166700 seconds
CountdownScale == 166700
CountdownRate == 167

\* "self.waiting_countdown = 3.0"
WaitingCountdownStart == 3 * CountdownScale

MainInit ==
    /\ game_state = MENU
    /\ waiting_countdown = None
    /\ wait_log = << >>
    /\ loop_pc = "idle"
    /\ loop_tracked = None

\* _handle_menu_selection, option 0
handle_menu_selection ==
    /\ game_state = MENU
    /\ is_calibrated
    /\ game_state' = WAITING_FOR_HANDS
    /\ waiting_countdown' = None
    /\ wait_log' = << >>

\* ESC in the waiting state
waiting_escape ==
    /\ game_state = WAITING_FOR_HANDS
    /\ game_state' = MENU
    /\ UNCHANGED << waiting_countdown, wait_log >>

\* variant: a tick out of position leaves the countdown where it was
CountdownAfterMiss_Kept(countdown) == countdown

\* "else: self.waiting_countdown = None"
CountdownAfterMiss(countdown) == None

\* the branch WAITING_FOR_HANDS of _update, for a tick of ms milliseconds
\* in which the controller returned hand_data
waiting_update(ms, hand_data) ==
    LET position_status == check_hand_positions(hand_data, DEFAULT_TOLERANCE)
        counted == Val(waiting_countdown) - ms * CountdownRate
    IN  /\ game_state = WAITING_FOR_HANDS
        /\ now' = now + ms
        /\ wait_log' = Append(wait_log,
                              [ ms |-> ms,
                                in_position |-> position_status.both_in_position ])
        /\ IF position_status.both_in_position
           THEN IF IsNone(waiting_countdown)
                THEN /\ waiting_countdown' = Some(WaitingCountdownStart)
                     /\ UNCHANGED game_state
                ELSE IF counted <= 0
                     THEN /\ game_state' = PLAYING
                          /\ waiting_countdown' = None
                     ELSE /\ waiting_countdown' = Some(counted)
                          /\ UNCHANGED game_state
           ELSE /\ waiting_countdown' = CountdownAfterMiss(waiting_countdown)
                /\ UNCHANGED game_state

(***************************************************************************)
(* HandTracker.__init__                                                    *)
(***************************************************************************)
TrackerInit ==
    /\ hands_visible = [ h \in HandSet |-> FALSE ]
    /\ finger_states = [ f \in FingerSet |-> FALSE ]
    /\ finger_positions = [ f \in FingerSet |-> << 0, 0, 0 >> ]
    /\ finger_relative_y = [ f \in FingerSet |-> 0 ]
    /\ finger_angles = [ f \in FingerSet |-> 0 ]
    /\ last_press_time = [ f \in FingerSet |-> 0 ]
    /\ press_events = << >>
    /\ frame_buffer = << >>
    /\ last_buffer_sample_time = 0
    /\ last_press_timestamp_ms = [ f \in FingerSet |-> 0 ]
    /\ hands_missing_since = None
    /\ tracker_baseline_angles = [ f \in FingerSet |-> None ]
    /\ LeapInit
    /\ MainInit
    /\ tick_log = << >>
    /\ press_log = << >>
    /\ window = << >>
    /\ window_args = None
    /\ probe = None

(***************************************************************************)
(* HandTracker.update                                                      *)
(***************************************************************************)
\* variant: the comparison is strict
AboveThreshold_Strict(angle, baseline, threshold) ==
    IF IsNone(baseline) THEN angle > threshold
    ELSE angle * Val(baseline).den - Val(baseline).num
           > threshold * Val(baseline).den

\* angle_from_baseline >= angle_threshold, for an integer angle
AboveThreshold(angle, baseline, threshold) ==
    IF IsNone(baseline) THEN angle >= threshold
    ELSE angle * Val(baseline).den - Val(baseline).num
           >= threshold * Val(baseline).den

\* variant: the edge test "not was_pressed" is missing
DetectsNewPress_NoEdge(is_pressed, was_pressed, current_time, last_time) ==
    /\ is_pressed
    /\ current_time - last_time >= PRESS_DEBOUNCE_TIME

\* variant: the debounce test is missing
DetectsNewPress_NoDebounce(is_pressed, was_pressed, current_time, last_time) ==
    /\ is_pressed
    /\ ~was_pressed

\* "if is_pressed and not was_pressed: ... if time_since_last >= PRESS_DEBOUNCE_TIME"
DetectsNewPress(is_pressed, was_pressed, current_time, last_time) ==
    /\ is_pressed
    /\ ~was_pressed
    /\ current_time - last_time >= PRESS_DEBOUNCE_TIME

\* variant: every crossing restarts the debounce clock, fired or not
StampsPress_EveryCrossing(is_pressed, was_pressed, current_time, last_time) ==
    is_pressed /\ ~was_pressed

\* "self.last_press_time[full_name] = current_time" stands in the branch
\* that appends the press
StampsPress(is_pressed, was_pressed, current_time, last_time) ==
    DetectsNewPress(is_pressed, was_pressed, current_time, last_time)

\* variant: one debounce clock shared by all fingers
LastPressOf_Shared(times, full_name) ==
    CHOOSE t \in { times[f] : f \in FingerSet } :
        \A f \in FingerSet : times[f] <= t

\* "self.last_press_time[full_name]"
LastPressOf(times, full_name) == times[full_name]

\* the fingers in the order update() visits them: hands left then right,
\* within a hand the order of hand['fingers']
VisitOrder ==
    << FullName("left", "thumb"), FullName("left", "index"),
       FullName("left", "middle"), FullName("left", "ring"),
       FullName("left", "pinky"),
       FullName("right", "thumb"), FullName("right", "index"),
       FullName("right", "middle"), FullName("right", "ring"),
       FullName("right", "pinky") >>

\* variant: a deque without maxlen
DequeAppend_Unbounded(buf, frame) == Append(buf, frame)

\* deque.append on a deque with maxlen
DequeAppend(buf, frame) ==
    IF Len(buf) >= BufferMaxLen THEN Append(Tail(buf), frame)
    ELSE Append(buf, frame)

\* variant: a frame is sampled in every tick
SampleDue_Always(current_time, last_sample) == current_time >= last_sample

\* "if current_time - self.last_buffer_sample_time >= FRAME_SAMPLE_RATE_MS"
SampleDue(current_time, last_sample) ==
    current_time - last_sample >= FRAME_SAMPLE_RATE_MS

\* variant: the frame is stamped with the time the next sample is due
MakeFrame_StampedAhead(timestamp_ms, positions, angles, states) ==
    [ timestamp_ms |-> timestamp_ms + FRAME_SAMPLE_RATE_MS,
      fingers |-> [ f \in FingerSet |->
                      [ tip_position |-> positions[f],
                        angle |-> angles[f],
                        is_pressed |-> states[f] ] ] ]

\* FrameSnapshot built by _add_frame_to_buffer from the tracker's fields
MakeFrame(timestamp_ms, positions, angles, states) ==
    [ timestamp_ms |-> timestamp_ms,
      fingers |-> [ f \in FingerSet |->
                      [ tip_position |-> positions[f],
                        angle |-> angles[f],
                        is_pressed |-> states[f] ] ] ]

\* variant: the left hand's record is read for both hands
HandFor_Left(hands_data, hand_type) == hands_data["left"]

\* "hand = hands_data.get(hand_type)"
HandFor(hands_data, hand_type) == hands_data[hand_type]

\* The per-finger loop of update() touches each finger of each visible hand
\* once and the fingers do not interact, so each field is written as one
\* function of the old state.  Primed fields named on the right have been
\* assigned by an earlier conjunct, as an earlier statement of the loop body.
update(current_time, hands_data) ==
    LET hand(f) == HandFor(hands_data, HandOf(f))
        visible(f) == ~IsNone(hand(f))
        finger_data(f) == Val(hand(f)).fingers[ShortOf(f)]
        palm_y(f) == Val(hand(f)).palm_position[2]
        \* is_pressed and was_pressed of the loop body
        fires(f) ==
            /\ visible(f)
            /\ DetectsNewPress(finger_states'[f], finger_states[f],
                               current_time, LastPressOf(last_press_time, f))
        stamps(f) ==
            /\ visible(f)
            /\ StampsPress(finger_states'[f], finger_states[f],
                           current_time, LastPressOf(last_press_time, f))
    IN  /\ current_time >= now
        /\ now' = current_time
        \* _update_hand_visibility
        /\ hands_visible' = [ left |-> ~IsNone(hands_data.left),
                              right |-> ~IsNone(hands_data.right) ]
        /\ hands_missing_since' =
              IF IsNone(hands_data.left) /\ IsNone(hands_data.right)
              THEN (IF IsNone(hands_missing_since) THEN Some(current_time)
                    ELSE hands_missing_since)
              ELSE None
        \* per-finger loop; a hand that is None is skipped
        /\ finger_positions' =
              [ f \in FingerSet |->
                  IF visible(f) THEN finger_data(f).tip_position
                  ELSE finger_positions[f] ]
        /\ finger_relative_y' =
              [ f \in FingerSet |->
                  IF visible(f) THEN finger_data(f).tip_position[2] - palm_y(f)
                  ELSE finger_relative_y[f] ]
        /\ finger_angles' =
              [ f \in FingerSet |->
                  IF visible(f)
                  THEN calculate_flexion_angle(finger_data(f).proximal_direction,
                                               finger_data(f).intermediate_direction)
                  ELSE finger_angles[f] ]
        /\ finger_states' =
              [ f \in FingerSet |->
                  IF visible(f)
                  THEN AboveThreshold(finger_angles'[f], get_baseline_angle(f),
                                      get_angle_threshold(f))
                  ELSE finger_states[f] ]
        /\ press_events' = SelectSeq(VisitOrder, fires)
        /\ last_press_time' =
              [ f \in FingerSet |->
                  IF stamps(f) THEN current_time ELSE last_press_time[f] ]
        /\ last_press_timestamp_ms' =
              [ f \in FingerSet |->
                  IF stamps(f) THEN current_time ELSE last_press_timestamp_ms[f] ]
        \* rolling buffer
        /\ IF SampleDue(current_time, last_buffer_sample_time)
           THEN /\ frame_buffer' =
                      DequeAppend(frame_buffer,
                                  MakeFrame(current_time, finger_positions',
                                            finger_angles', finger_states'))
                /\ last_buffer_sample_time' = current_time
           ELSE UNCHANGED << frame_buffer, last_buffer_sample_time >>
        \* what the caller has seen: the snapshot read and the return value
        /\ tick_log' =
              Append(tick_log,
                     [ t |-> current_time,
                       visible |-> hands_visible',
                       above |-> { f \in FingerSet :
                                     visible(f) /\ finger_states'[f] } ])
        /\ press_log' =
              press_log \o [ i \in 1..Len(press_events') |->
                               [ finger |-> press_events'[i], t |-> current_time ] ]
        /\ UNCHANGED << tracker_baseline_angles, leapVars, mainVars, calibVars,
                        calibLog, window, window_args, probe >>

(***************************************************************************)
(* HandTracker: the angle of a finger relative to its baseline             *)
(***************************************************************************)
\* the local angle_from_baseline of update(), for the finger's latest angle:
\* the baseline is the calibration manager's
angle_from_baseline(full_name) ==
    LET current_angle == finger_angles[full_name]
        baseline_angle == get_baseline_angle(full_name)
    IN  IF ~IsNone(baseline_angle)
        THEN AngleFromBaseline(current_angle, Val(baseline_angle))
        ELSE RatInt(current_angle)

\* get_finger_angle_from_baseline: the baseline is the tracker's own, which
\* only set_baseline_angle writes and which no code of the program calls
get_finger_angle_from_baseline(finger_name) ==
    LET current_angle == finger_angles[finger_name]
        baseline == tracker_baseline_angles[finger_name]
    IN  IF ~IsNone(baseline)
        THEN AngleFromBaseline(current_angle, Val(baseline))
        ELSE RatInt(current_angle)

(***************************************************************************)
(* HandTracker.get_frames_in_window                                        *)
(***************************************************************************)
\* variant: the upper bound is exclusive
InWindow_Exclusive(window_start, ts, window_end) ==
    window_start <= ts /\ ts < window_end

\* "if window_start <= frame.timestamp_ms <= window_end"
InWindow(window_start, ts, window_end) ==
    window_start <= ts /\ ts <= window_end

RECURSIVE ScanFrames(_, _, _)
ScanFrames(buf, window_start, window_end) ==
    IF buf = << >> THEN << >>
    ELSE (IF InWindow(window_start, buf[1].timestamp_ms, window_end)
          THEN << buf[1] >> ELSE << >>)
         \o ScanFrames(Tail(buf), window_start, window_end)

frames_in_window(center_time_ms, before_ms, after_ms) ==
    ScanFrames(frame_buffer, center_time_ms - before_ms, center_time_ms + after_ms)

get_frames_in_window(center_time_ms, before_ms, after_ms) ==
    /\ window' = frames_in_window(center_time_ms, before_ms, after_ms)
    /\ window_args' = Some([ center |-> center_time_ms, before |-> before_ms,
                             after |-> after_ms ])
    /\ UNCHANGED << now, trackerVars, calibVars, calibLog, tick_log, press_log, probe >>

(***************************************************************************)
(* KinematicsProcessor                                                     *)
(* Fingertip positions are integers, in units of 1/UnitsPerMm millimetre;  *)
(* path lengths are in the same unit.  A ratio is an exact fraction and    *)
(* float('inf') is the fraction with denominator 0.                        *)
(***************************************************************************)
WINDOW_BEFORE_MS == 200
WINDOW_AFTER_MS == 400
MLR_THRESHOLD == [ num |-> 1, den |-> 10 ]

UnitsPerMm == 2000

\* "0.001", the guard of the division, in position units
PathEpsilon == [ num |-> UnitsPerMm, den |-> 1000 ]
\* "0.1", the guard of the angle division, in degrees
AngleEpsilon == [ num |-> 1, den |-> 10 ]

Infinity == [ num |-> 1, den |-> 0 ]

\* a <= b for fractions with denominators >= 0
RatLeq(a, b) == a.num * b.den <= b.num * a.den

\* a > b
RatGt(a, b) == ~RatLeq(a, b)

\* the largest r in lo..hi with r * r <= n
RECURSIVE SqrtSearch(_, _, _)
SqrtSearch(n, lo, hi) ==
    IF lo >= hi THEN lo
    ELSE LET mid == (lo + hi + 1) \div 2
         IN  IF mid * mid <= n THEN SqrtSearch(n, mid, hi)
             ELSE SqrtSearch(n, lo, mid - 1)

\* math.sqrt, exact on the perfect squares
Sqrt(n) == SqrtSearch(n, 0, 46340)

\* _euclidean_distance
euclidean_distance(pos1, pos2) ==
    Sqrt((pos2[1] - pos1[1]) * (pos2[1] - pos1[1])
         + (pos2[2] - pos1[2]) * (pos2[2] - pos1[2])
         + (pos2[3] - pos1[3]) * (pos2[3] - pos1[3]))

\* "sorted(frames, key=lambda f: f.timestamp_ms)": stable, ascending
RECURSIVE InsertFrame(_, _)
InsertFrame(sorted_frames, frame) ==
    IF sorted_frames = << >> THEN << frame >>
    ELSE IF Last(sorted_frames).timestamp_ms <= frame.timestamp_ms
         THEN Append(sorted_frames, frame)
         ELSE Append(InsertFrame(SubSeq(sorted_frames, 1, Len(sorted_frames) - 1),
                                 frame),
                     Last(sorted_frames))

RECURSIVE SortFrames(_)
SortFrames(frames) ==
    IF frames = << >> THEN << >>
    ELSE InsertFrame(SortFrames(SubSeq(frames, 1, Len(frames) - 1)), Last(frames))

\* "frame.get_finger(name)" is not None
HasFinger(frame, finger_name) == finger_name \in DOMAIN frame.fingers

\* variant: the distance from the first frame to the last one
PathLengthOf_Net(sorted_frames, finger_name) ==
    IF /\ HasFinger(sorted_frames[1], finger_name)
       /\ HasFinger(Last(sorted_frames), finger_name)
    THEN euclidean_distance(sorted_frames[1].fingers[finger_name].tip_position,
                            Last(sorted_frames).fingers[finger_name].tip_position)
    ELSE 0

\* the loop of _calculate_all_path_lengths for one finger
PathLengthOf(sorted_frames, finger_name) ==
    SumSeq([ i \in 1..(Len(sorted_frames) - 1) |->
               IF /\ HasFinger(sorted_frames[i], finger_name)
                  /\ HasFinger(sorted_frames[i + 1], finger_name)
               THEN euclidean_distance(
                        sorted_frames[i].fingers[finger_name].tip_position,
                        sorted_frames[i + 1].fingers[finger_name].tip_position)
               ELSE 0 ])

\* _calculate_all_path_lengths
calculate_all_path_lengths(frames) ==
    IF Len(frames) < 2 THEN [ f \in FingerSet |-> 0 ]
    ELSE LET sorted_frames == SortFrames(frames)
         IN  [ f \in FingerSet |-> PathLengthOf(sorted_frames, f) ]

\* the loop of _calculate_all_angle_paths for one finger
AnglePathOf(sorted_frames, finger_name) ==
    SumSeq([ i \in 1..(Len(sorted_frames) - 1) |->
               IF /\ HasFinger(sorted_frames[i], finger_name)
                  /\ HasFinger(sorted_frames[i + 1], finger_name)
               THEN Abs(sorted_frames[i + 1].fingers[finger_name].angle
                        - sorted_frames[i].fingers[finger_name].angle)
               ELSE 0 ])

\* _calculate_all_angle_paths
calculate_all_angle_paths(frames) ==
    IF Len(frames) < 2 THEN [ f \in FingerSet |-> 0 ]
    ELSE LET sorted_frames == SortFrames(frames)
         IN  [ f \in FingerSet |-> AnglePathOf(sorted_frames, f) ]

\* variant: the pressed finger is not skipped
check_coupled_keypress_AnyFinger(frames, pressed_finger) ==
    \E i \in 1..Len(frames) :
        \E f \in FingerSet :
            /\ HasFinger(frames[i], f)
            /\ frames[i].fingers[f].is_pressed

\* _check_coupled_keypress
check_coupled_keypress(frames, pressed_finger) ==
    \E i \in 1..Len(frames) :
        \E f \in FingerSet :
            /\ f # pressed_finger
            /\ HasFinger(frames[i], f)
            /\ frames[i].fingers[f].is_pressed

\* sum(non_target.values()) for a dict of the fingers other than the target
SumOthers(lengths, target_finger) ==
    SumSeq([ i \in 1..Len(FINGER_NAMES) |->
               IF FINGER_NAMES[i] # target_finger THEN lengths[FINGER_NAMES[i]]
               ELSE 0 ])

\* variant: a finger at rest always gives an infinite ratio
RatioAtRest_Infinite(total_non_target) == Infinity

\* "float('inf') if sum(non_target_path_lengths.values()) > 0 else 0.0"
RatioAtRest(total_non_target) ==
    IF total_non_target > 0 THEN Infinity ELSE RatInt(0)

\* variant: the division is guarded by "> 0"
LeakageRatio_ZeroGuard(target_length, total_non_target, epsilon) ==
    IF target_length > 0 THEN Rat(total_non_target, target_length)
    ELSE RatioAtRest(total_non_target)

\* "if target > eps: total / target, else: inf if total > 0 else 0.0"
LeakageRatio(target_length, total_non_target, epsilon) ==
    IF RatGt(RatInt(target_length), epsilon)
    THEN Rat(total_non_target, target_length)
    ELSE RatioAtRest(total_non_target)

\* "... else: inf if total > 0.1 else 0.0"
AngleLeakageRatio(target_path, total_non_target, epsilon) ==
    IF RatGt(RatInt(target_path), epsilon)
    THEN Rat(total_non_target, target_path)
    ELSE IF RatGt(RatInt(total_non_target), epsilon) THEN Infinity
         ELSE RatInt(0)

\* variant: the wrong-finger test is missing
IsClean_AnyFinger(is_wrong_finger, coupled_keypress, ratio) ==
    /\ ~coupled_keypress
    /\ RatLeq(ratio, MLR_THRESHOLD)

\* "not is_wrong_finger and not coupled_keypress and ratio <= MLR_THRESHOLD"
IsClean(is_wrong_finger, coupled_keypress, ratio) ==
    /\ ~is_wrong_finger
    /\ ~coupled_keypress
    /\ RatLeq(ratio, MLR_THRESHOLD)

\* the body of calculate_trial_metrics after the three passes over the frames
MetricsOf(path_lengths, angle_paths, coupled_keypress, press_timestamp_ms, target_finger, pressed_finger, missile_spawn_time_ms) ==
    LET target_path_length == path_lengths[target_finger]
        motion_leakage_ratio ==
            LeakageRatio(target_path_length,
                         SumOthers(path_lengths, target_finger), PathEpsilon)
        target_angle_path == angle_paths[target_finger]
        angle_based_mlr ==
            AngleLeakageRatio(target_angle_path,
                              SumOthers(angle_paths, target_finger), AngleEpsilon)
        is_wrong_finger == target_finger # pressed_finger
    IN  [ reaction_time_ms |-> press_timestamp_ms - missile_spawn_time_ms,
          target_finger |-> target_finger,
          pressed_finger |-> pressed_finger,
          is_wrong_finger |-> is_wrong_finger,
          target_path_length |-> target_path_length,
          non_target_path_lengths |->
              [ f \in FingerSet \ { target_finger } |-> path_lengths[f] ],
          motion_leakage_ratio |-> motion_leakage_ratio,
          target_angle_path |-> target_angle_path,
          non_target_angle_paths |->
              [ f \in FingerSet \ { target_finger } |-> angle_paths[f] ],
          angle_based_mlr |-> angle_based_mlr,
          coupled_keypress |-> coupled_keypress,
          is_clean_trial |->
              IsClean(is_wrong_finger, coupled_keypress, motion_leakage_ratio),
          is_clean_trial_angle |->
              IsClean(is_wrong_finger, coupled_keypress, angle_based_mlr) ]

\* the TrialMetrics computed from the frames of the window
TrialMetrics(frames, press_timestamp_ms, target_finger, pressed_finger, missile_spawn_time_ms) ==
    MetricsOf(calculate_all_path_lengths(frames),
              calculate_all_angle_paths(frames),
              check_coupled_keypress(frames, pressed_finger),
              press_timestamp_ms, target_finger, pressed_finger,
              missile_spawn_time_ms)

\* calculate_trial_metrics: reads the window from the tracker's buffer
calculate_trial_metrics(press_timestamp_ms, target_finger, pressed_finger, missile_spawn_time_ms) ==
    /\ window' = frames_in_window(press_timestamp_ms, WINDOW_BEFORE_MS,
                                  WINDOW_AFTER_MS)
    /\ window_args' = Some([ center |-> press_timestamp_ms,
                             before |-> WINDOW_BEFORE_MS,
                             after |-> WINDOW_AFTER_MS ])
    /\ probe' = Some([ args |-> [ press_timestamp_ms |-> press_timestamp_ms,
                                  target_finger |-> target_finger,
                                  pressed_finger |-> pressed_finger,
                                  missile_spawn_time_ms |-> missile_spawn_time_ms ],
                       result |-> TrialMetrics(window', press_timestamp_ms,
                                               target_finger, pressed_finger,
                                               missile_spawn_time_ms) ])
    /\ UNCHANGED << now, trackerVars, calibVars, calibLog, tick_log, press_log >>

(***************************************************************************)
(* Press-detector specification: two flexing fingers, short horizon        *)
(***************************************************************************)
PressDts == { 50, 100 }

PressHands ==
    { HandsData(l, r) :
        l \in { None, HandRecord({}), HandRecord({"index"}) },
        r \in { None, HandRecord({}) } }

PressInit ==
    /\ now = StartTime
    /\ TrackerInit
    /\ \E file \in { None, Some(EarlierProfile) } : ManagerInit(file)

PressTick ==
    \E dt \in PressDts, h \in PressHands :
        /\ now + dt <= StartTime + MaxPressTime
        /\ update(now + dt, h)
        /\ UNCHANGED loopVars

PressNext == PressTick

SpecPress == PressInit /\ [][PressNext]_vars

(***************************************************************************)
(* Debounce specification: the index fingers of both hands flex and relax, *)
(* one tick every 50 ms                                                    *)
(***************************************************************************)
\* horizon (ms after StartTime) of the debounce specification
MaxDebounceTime == 300

DebounceDt == 50

DebounceHands ==
    { HandsData(l, r) :
        l \in { HandRecord({}), HandRecord({"index"}) },
        r \in { None, HandRecord({}), HandRecord({"index"}) } }

DebounceInit ==
    /\ now = StartTime
    /\ TrackerInit
    /\ ManagerInit(None)

DebounceTick ==
    \E h \in DebounceHands :
        /\ now + DebounceDt <= StartTime + MaxDebounceTime
        /\ update(now + DebounceDt, h)
        /\ UNCHANGED loopVars

DebounceNext == DebounceTick

SpecDebounce == DebounceInit /\ [][DebounceNext]_vars

(***************************************************************************)
(* Threshold specification: the right index finger is flexed by 0, 30 or   *)
(* 45 degrees, with no profile or with a profile whose baselines are 0, 15 *)
(* or 15.5 degrees                                                         *)
(***************************************************************************)
MaxThresholdTicks == 3

ThresholdDt == 250

\* bone directions 0, 30 and 45 degrees apart
FlexedFinger(angle) ==
    [ tip_position |-> << 0, 200, 0 >>,
      proximal_direction |-> IF angle = 30 THEN << 1, 1, 0 >> ELSE DirUp,
      intermediate_direction |->
          CASE angle = 0 -> DirUp
            [] angle = 30 -> << 1, 2, 1 >>
            [] angle = 45 -> DirDiag ]

ThresholdHand(angle) ==
    Some([ Val(HandRecord({})) EXCEPT !.fingers.index = FlexedFinger(angle) ])

ThresholdBaselines == { RatInt(0), RatInt(15), Rat(31, 2) }

ThresholdProfile(baseline) ==
    [ EarlierProfile EXCEPT
        !.baseline_angles = [ f \in FingerSet |-> DumpNumber(Some(baseline)) ] ]

ThresholdInit ==
    /\ now = StartTime
    /\ TrackerInit
    /\ \E file \in { None } \cup
                    { Some(ThresholdProfile(b)) : b \in ThresholdBaselines } :
          ManagerInit(file)

ThresholdTick ==
    /\ Len(tick_log) < MaxThresholdTicks
    /\ \E angle \in { 0, 30, 45 }, l \in { None, HandRecord({ "index" }) } :
          update(now + ThresholdDt, HandsData(l, ThresholdHand(angle)))
    /\ UNCHANGED loopVars

ThresholdNext == ThresholdTick

SpecThreshold == ThresholdInit /\ [][ThresholdNext]_vars

(***************************************************************************)
(* Frame-buffer specification: a held finger, long horizon, tick periods   *)
(* below, at and above the sampling period; the caller queries the buffer  *)
(* after the ticks of the run.                                             *)
(***************************************************************************)
BufferDts == { 7, 16, 40 }

BufferHands == HandsData(HandRecord({"index"}), None)

\* tick period between consecutive entries of a tick log
Gap(log, i) == log[i].t - (IF i = 1 THEN StartTime ELSE log[i - 1].t)

RateChanges(log) ==
    Cardinality({ i \in 2..Len(log) : Gap(log, i) # Gap(log, i - 1) })

BufferInit ==
    /\ now = StartTime
    /\ TrackerInit
    /\ ManagerInit(None)

BufferTick ==
    \E dt \in BufferDts :
        /\ IsNone(window_args)
        /\ now + dt <= StartTime + MaxBufferTime
        /\ update(now + dt, BufferHands)
        /\ UNCHANGED loopVars
        /\ RateChanges(tick_log') <= MaxRateChanges

QueryCenters == { 0, 80 }
QueryWindows == { << 200, 400 >>, << 40, 0 >> }

BufferQuery ==
    \E c \in QueryCenters, w \in QueryWindows :
        get_frames_in_window(now - c, w[1], w[2])

BufferNext == BufferTick \/ BufferQuery

SpecBuffer == BufferInit /\ [][BufferNext]_vars

(***************************************************************************)
(* Calibration specification: the public methods of the CalibrationManager *)
(* called as main.py calls them; the period of the updates is a quarter or *)
(* a half of the duration of the phase (the whole hold time in the finger  *)
(* phase), and every finger of a frame is at the same angle                *)
(***************************************************************************)
CalibDts ==
    CASE calibration_phase = "calibrating_finger" -> { hold_time_required }
      [] calibration_phase \in { "baseline_left", "baseline_right" } ->
            { baseline_duration \div 2, baseline_duration }
      [] OTHER -> { countdown_duration \div 2, countdown_duration }

CalibAngles == { 10, 45 }

CalibHands ==
    { HandsData(l, r) : l \in { None, HandRecord({}) },
                        r \in { None, HandRecord({}) } }

CalibInit ==
    /\ now = StartTime
    /\ TrackerInit
    /\ \E file \in { None, Some(EarlierProfile) } : ManagerInit(file)

\* SPACE in the calibration menu (main.py:297-299), which is left for the
\* state CALIBRATING and entered again only after that state was left
CalibStart ==
    /\ ~calibrating
    /\ start_calibration(now)
    /\ last_call' = "start_calibration"
    /\ file_at_start' = calibration_file
    /\ UNCHANGED calib_log
    /\ UNCHANGED << trackerVars, tick_log, press_log, window, window_args, probe >>

CalibUpdate ==
    \E dt \in CalibDts, h \in CalibHands, a \in CalibAngles :
        /\ now + dt <= StartTime + MaxCalibTime
        /\ update_calibration(now + dt, h, [ f \in FingerSet |-> a ])
        /\ last_call' = "update_calibration"
        /\ UNCHANGED << file_at_start, calib_log >>
        /\ UNCHANGED << trackerVars, tick_log, press_log, window, window_args, probe >>

\* ESC in the state CALIBRATING (main.py:272-274), which is left by it
CalibCancel ==
    /\ calibration_phase # "idle"
    /\ cancel_calibration
    /\ last_call' = "cancel_calibration"
    /\ UNCHANGED << file_at_start, calib_log >>
    /\ UNCHANGED << trackerVars, tick_log, press_log, window, window_args, probe >>

CalibNext == CalibStart \/ CalibUpdate \/ CalibCancel

SpecCalib == CalibInit /\ [][CalibNext]_vars

(***************************************************************************)
(* Round-trip specification: the calibration specification, and after a    *)
(* completed run the program is started again                              *)
(***************************************************************************)
\* main.py:62 in the next session
RoundTripRestart ==
    /\ calibration_phase = "complete"
    /\ ManagerRestart
    /\ UNCHANGED << trackerVars, tick_log, press_log, window, window_args, probe >>

RoundTripNext == CalibNext \/ RoundTripRestart

SpecRoundTrip == CalibInit /\ [][RoundTripNext]_vars

(***************************************************************************)
(* The calls of the manager with a record of each call in calib_log        *)
(***************************************************************************)
\* the angles get_all_finger_angles hands over: finger number i of
\* FINGER_NAMES (from 0) is at angle a + i
FingerIndex(f) == CHOOSE i \in 0..(Len(FINGER_NAMES) - 1) : FINGER_NAMES[i + 1] = f

SpreadAngles(a) == [ f \in FingerSet |-> a + FingerIndex(f) ]

Visible(hand_data) ==
    [ left |-> ~IsNone(hand_data.left), right |-> ~IsNone(hand_data.right) ]

LogEntry(call, visible, a) ==
    [ call |-> call,
      t |-> now',
      phase |-> calibration_phase,
      phase_after |-> calibration_phase',
      index |-> current_finger_index,
      visible |-> visible,
      angle |-> a,
      ret |-> IF call = "update_calibration" THEN still_calibrating' ELSE None ]

LoggedStart ==
    /\ start_calibration(now)
    /\ last_call' = "start_calibration"
    /\ file_at_start' = calibration_file
    /\ calib_log' = Append(calib_log, LogEntry("start_calibration", Visible(HandsData(None, None)), 0))
    /\ UNCHANGED << trackerVars, tick_log, press_log, window, window_args, probe >>

LoggedUpdate(dt, hand_data, a) ==
    /\ update_calibration(now + dt, hand_data, SpreadAngles(a))
    /\ last_call' = "update_calibration"
    /\ calib_log' = Append(calib_log, LogEntry("update_calibration", Visible(hand_data), a))
    /\ UNCHANGED file_at_start
    /\ UNCHANGED << trackerVars, tick_log, press_log, window, window_args, probe >>

LoggedCancel ==
    /\ cancel_calibration
    /\ last_call' = "cancel_calibration"
    /\ calib_log' = Append(calib_log, LogEntry("cancel_calibration", Visible(HandsData(None, None)), 0))
    /\ UNCHANGED file_at_start
    /\ UNCHANGED << trackerVars, tick_log, press_log, window, window_args, probe >>

\* the time between the last two calls recorded
LastGap == calib_log[Len(calib_log)].t - calib_log[Len(calib_log) - 1].t

(***************************************************************************)
(* Baseline specification: one update ends the countdown; during the       *)
(* capture of the left hand the updates come at a steady period, either    *)
(* below the sample delay, or such that 60 samples fit, or a fifth of the   *)
(* phase; at the long period both hands or the left hand may be absent    *)
(* and the angle high;                                                     *)
(* the right hand is captured with one update in the middle of the phase;  *)
(* the run may be cancelled early in the capture and started again         *)
(***************************************************************************)
ShortPeriod == 40
SixtyPeriod == 165
LongPeriod == baseline_duration \div 5
HalfPeriod == baseline_duration \div 2

BaselinePeriods ==
    IF calibration_phase = "countdown" THEN { countdown_duration }
    ELSE IF calibration_phase = "baseline_right" THEN { HalfPeriod }
    ELSE IF calib_log[Len(calib_log)].phase = "baseline_left"
         THEN { LastGap }
         ELSE { ShortPeriod, SixtyPeriod, LongPeriod }

BaselineHands(dt) ==
    IF dt >= LongPeriod /\ calibration_phase # "countdown"
    THEN { HandsData(HandRecord({}), HandRecord({})), HandsData(None, None),
           HandsData(None, HandRecord({})) }
    ELSE { HandsData(HandRecord({}), HandRecord({})) }

BaselineAngleInputs(dt, hand_data) ==
    IF dt >= LongPeriod /\ calibration_phase # "countdown" /\ ~IsNone(hand_data.left)
    THEN { 10, 40 } ELSE { 10 }

BaselineInit ==
    /\ now = StartTime
    /\ TrackerInit
    /\ ManagerInit(Some(EarlierProfile))

BaselineStart ==
    /\ ~calibrating
    /\ LoggedStart

BaselineUpdate ==
    /\ calibration_phase \in { "countdown", "baseline_left", "baseline_right" }
    /\ \E dt \in BaselinePeriods :
         \E h \in BaselineHands(dt) :
            \E a \in BaselineAngleInputs(dt, h) :
                /\ now + dt <= StartTime + MaxBaselineTime
                /\ LoggedUpdate(dt, h, a)

\* cancelled before the second update of the capture of the left hand
BaselineCancel ==
    /\ calibration_phase = "baseline_left"
    /\ now - baseline_start_time \in { 0, LongPeriod }
    /\ now <= StartTime + countdown_duration + LongPeriod
    /\ LoggedCancel

BaselineNext == BaselineStart \/ BaselineUpdate \/ BaselineCancel

SpecBaseline == BaselineInit /\ [][BaselineNext]_vars

(***************************************************************************)
(* Hold specification: the countdown and both captures pass with one       *)
(* sample of 10 degrees each (finger number i at 10 + i); in the finger    *)
(* phase the updates come 200 or 300 ms apart, the hand of the finger is   *)
(* absent or shows the finger 29 or 30 degrees above its baseline, and at  *)
(* last the hand may stay away for a minute; the run may be cancelled in   *)
(* the finger phase                                                        *)
(***************************************************************************)
RelaxedAngle == 10

HoldPeriods ==
    IF calibration_phase = "calibrating_finger" THEN { 200, 300 }
    ELSE IF calibration_phase = "countdown" THEN { countdown_duration }
    ELSE { HalfPeriod }

HoldHands ==
    IF calibration_phase = "calibrating_finger"
    THEN { HandsData(HandRecord({}), HandRecord({})),
           HandsData(None, HandRecord({})) }
    ELSE { HandsData(HandRecord({}), HandRecord({})) }

HoldAngleInputs(hand_data) ==
    IF calibration_phase = "calibrating_finger" /\ ~IsNone(hand_data.left)
    THEN { RelaxedAngle + FINGER_PRESS_ANGLE_THRESHOLD - 1,
           RelaxedAngle + FINGER_PRESS_ANGLE_THRESHOLD }
    ELSE { RelaxedAngle }

\* the time at which the finger phase is entered
FingerPhaseStart == StartTime + countdown_duration + 2 * baseline_duration

HoldInit ==
    /\ now = StartTime
    /\ TrackerInit
    /\ ManagerInit(None)

HoldStart ==
    /\ last_call = "__init__"
    /\ LoggedStart

LongAbsence == 60000

HoldUpdate ==
    /\ calibrating
    /\ \/ \E dt \in HoldPeriods :
            \E h \in HoldHands :
               \E a \in HoldAngleInputs(h) :
                   /\ now + dt <= FingerPhaseStart + MaxHoldTime
                   /\ LoggedUpdate(dt, h, a)
       \/ /\ calibration_phase = "calibrating_finger"
          /\ now <= FingerPhaseStart + MaxHoldTime
          /\ LoggedUpdate(LongAbsence, HandsData(None, HandRecord({})),
                          RelaxedAngle)

HoldCancel ==
    /\ calibration_phase = "calibrating_finger"
    /\ LoggedCancel

HoldNext == HoldStart \/ HoldUpdate \/ HoldCancel

SpecHold == HoldInit /\ [][HoldNext]_vars

(***************************************************************************)
(* Position specification: a profile with a reference palm position for    *)
(* both hands, one hand or none is loaded, and check_hand_positions is     *)
(* called with palms at, inside, on and just outside the tolerance         *)
(***************************************************************************)
\* a visible hand with relaxed fingers and its palm at palm_position
HandAt(palm_position) ==
    Some([ Val(HandRecord({})) EXCEPT !.palm_position = palm_position ])

ReferencePalms ==
    { [ left |-> l, right |-> r ] :
        l \in { None, Some(<< RatInt(0), RatInt(150), RatInt(0) >>) },
        r \in { None, Some(<< RatInt(0), RatInt(150), RatInt(0) >>),
                Some(<< Rat(1, 2), RatInt(150), RatInt(0) >>) } }

PositionPalms ==
    { << 0, 150, 0 >>, << 30, 190, 0 >>, << 30, 190, 1 >>, << 0, 150, 50 >>,
      << 0, 150, -51 >>, << -50, 150, 0 >> }

PositionHands ==
    { HandsData(l, r) :
        l \in { None } \cup { HandAt(p) : p \in PositionPalms },
        r \in { None } \cup { HandAt(p) : p \in PositionPalms } }

PositionInit ==
    /\ now = StartTime
    /\ TrackerInit
    /\ \E palms \in ReferencePalms :
          ManagerInit(Some([ EarlierProfile EXCEPT
                             !.palm_positions =
                                 [ h \in HandSet |-> DumpPosition(palms[h]) ] ]))

PositionCheck ==
    \E h \in PositionHands :
        /\ probe' = Some([ args |-> h,
                           result |-> check_hand_positions(h, DEFAULT_TOLERANCE) ])
        /\ UNCHANGED << now, trackerVars, calibVars, calibLog, tick_log,
                        press_log, window, window_args >>

PositionNext == PositionCheck

SpecPosition == PositionInit /\ [][PositionNext]_vars

(***************************************************************************)
(* Degenerate specification: the right hand is absent, relaxed, or has an  *)
(* index finger whose intermediate bone has no direction; it is the only   *)
(* finger at which the Angle Estimator arrives at 90 degrees               *)
(***************************************************************************)
MaxDegenerateTicks == 4

DegenerateDt == 250

DirNone == << 0, 0, 0 >>

DegenerateFinger ==
    [ tip_position |-> << 0, 200, 0 >>,
      proximal_direction |-> DirUp,
      intermediate_direction |-> DirNone ]

DegenerateHand ==
    Some([ Val(HandRecord({})) EXCEPT !.fingers.index = DegenerateFinger ])

DegenerateHands ==
    { HandsData(None, r) : r \in { None, HandRecord({}), DegenerateHand } }

DegenerateInit ==
    /\ now = StartTime
    /\ TrackerInit
    /\ \E file \in { None, Some(EarlierProfile) } : ManagerInit(file)

DegenerateTick ==
    \E h \in DegenerateHands :
        /\ Len(tick_log) < MaxDegenerateTicks
        /\ update(now + DegenerateDt, h)
        /\ UNCHANGED loopVars

DegenerateNext == DegenerateTick

SpecDegenerate == DegenerateInit /\ [][DegenerateNext]_vars

(***************************************************************************)
(* Waiting specification: the menu, the waiting state and the start of the *)
(* game; a tick takes 1 s or 1.5 s, with both hands in position, the left  *)
(* hand 51 mm off, or the right hand absent                                *)
(***************************************************************************)
\* horizon (ms after StartTime) of the waiting specification
MaxWaitTime == 6000

WaitMs == { 1000, 1500 }

WaitHands ==
    { HandsData(HandAt(<< 0, 150, 0 >>), HandAt(<< 0, 150, 0 >>)),
      HandsData(HandAt(<< 0, 150, -51 >>), HandAt(<< 0, 150, 0 >>)),
      HandsData(HandAt(<< 0, 150, 0 >>), None) }

WaitInit ==
    /\ now = StartTime
    /\ TrackerInit
    /\ \E file \in { None, Some(EarlierProfile) } : ManagerInit(file)

mainRest ==
    << trackerFields, leapVars, loopVars, calibVars, calibLog, tick_log, press_log,
       window, window_args, probe >>

WaitSelect ==
    /\ handle_menu_selection
    /\ UNCHANGED << now, mainRest >>

WaitEscape ==
    /\ waiting_escape
    /\ UNCHANGED << now, mainRest >>

WaitTick ==
    \E ms \in WaitMs, h \in WaitHands :
        /\ now + ms <= StartTime + MaxWaitTime
        /\ waiting_update(ms, h)
        /\ UNCHANGED mainRest

WaitNext == WaitSelect \/ WaitEscape \/ WaitTick

SpecWaiting == WaitInit /\ [][WaitNext]_vars

(***************************************************************************)
(* Reset specification: the position specification with calls of           *)
(* reset_calibration                                                       *)
(***************************************************************************)
ResetInit ==
    /\ now = StartTime
    /\ TrackerInit
    /\ \E file \in { None } \cup
            { Some([ EarlierProfile EXCEPT
                       !.palm_positions =
                           [ h \in HandSet |-> DumpPosition(palms[h]) ] ]) :
                palms \in ReferencePalms } :
          ManagerInit(file)

\* the caller has not asked for the positions since the reset
ResetCall ==
    /\ reset_calibration
    /\ last_call' = "reset_calibration"
    /\ probe' = None
    /\ UNCHANGED << trackerVars, file_at_start, calib_log, tick_log, press_log,
                    window, window_args >>

ResetCheck == PositionCheck

ResetNext == ResetCall \/ ResetCheck

SpecReset == ResetInit /\ [][ResetNext]_vars

(***************************************************************************)
(* Kinematics specification: the right hand is tracked for a few ticks     *)
(* while its index and middle fingers move and flex, and the metrics of a  *)
(* trial are computed from the buffer                                      *)
(***************************************************************************)
MaxKinTicks == 3

KinDt == 100

\* a finger whose tip is x position units off its rest position
KinFinger(x, bent) ==
    [ tip_position |-> << x, 200 * UnitsPerMm, 0 >>,
      proximal_direction |-> DirUp,
      intermediate_direction |-> IF bent THEN DirDiag ELSE DirUp ]

KinHand(index_x, middle_x, bent) ==
    Some([ palm_position |-> << 0, 150 * UnitsPerMm, 0 >>,
           fingers |->
             [ thumb |-> KinFinger(0, FALSE),
               index |-> KinFinger(index_x, "index" \in bent),
               middle |-> KinFinger(middle_x, "middle" \in bent),
               ring |-> KinFinger(0, FALSE),
               pinky |-> KinFinger(0, FALSE) ] ])

\* tip offsets: 1 unit = 0.0005 mm, 2 units = 0.001 mm, 2000 units = 1 mm
KinPostures ==
    { KinHand(0, 0, {}),
      KinHand(1, 5 * UnitsPerMm, {}),
      KinHand(2, 0, {}),
      KinHand(3, 0, {}),
      KinHand(10 * UnitsPerMm, UnitsPerMm, { "index" }),
      KinHand(10 * UnitsPerMm, UnitsPerMm + 1, { "index" }),
      KinHand(10 * UnitsPerMm, UnitsPerMm, { "index", "middle" }),
      KinHand(0, 5 * UnitsPerMm, { "middle" }) }

KinFingers == { "right_index", "right_middle" }

KinInit ==
    /\ now = StartTime
    /\ TrackerInit
    /\ ManagerInit(Some(EarlierProfile))

\* the run ends with the metrics of its trial
KinTick ==
    /\ IsNone(probe)
    /\ Len(tick_log) < MaxKinTicks
    /\ \E r \in KinPostures : update(now + KinDt, HandsData(None, r))
    /\ UNCHANGED loopVars

\* main.py passes the time, the finger and the target of a press event
KinMetrics ==
    /\ IsNone(probe)
    /\ \E press_timestamp_ms \in { now, now - KinDt } :
       \E target_finger \in KinFingers :
       \E pressed_finger \in KinFingers :
          calculate_trial_metrics(press_timestamp_ms, target_finger,
                                  pressed_finger, press_timestamp_ms - 350)

KinNext == KinTick \/ KinMetrics

SpecKinematics == KinInit /\ [][KinNext]_vars

(***************************************************************************)
(* Path specification: the tip of the right index finger moves between     *)
(* four points, along a line, out and back, and off the line               *)
(***************************************************************************)
MaxPathTicks == 3

\* (0, 0, 0), (0, 10, 0), (0, 20, 0) and (7.5, 10, 0) in mm
PathPoints ==
    { << 0, 0, 0 >>, << 0, 10 * UnitsPerMm, 0 >>, << 0, 20 * UnitsPerMm, 0 >>,
      << 15 * (UnitsPerMm \div 2), 10 * UnitsPerMm, 0 >> }

PathHand(tip_position) ==
    Some([ Val(KinHand(0, 0, {})) EXCEPT
             !.fingers.index.tip_position = tip_position ])

PathInit ==
    /\ now = StartTime
    /\ TrackerInit
    /\ ManagerInit(Some(EarlierProfile))

PathTick ==
    /\ IsNone(probe)
    /\ Len(tick_log) < MaxPathTicks
    /\ \E tip_position \in PathPoints :
          update(now + KinDt, HandsData(None, PathHand(tip_position)))
    /\ UNCHANGED loopVars

PathMetrics ==
    /\ IsNone(probe)
    /\ \E target_finger \in KinFingers :
          calculate_trial_metrics(now, target_finger, target_finger, now - 350)

PathNext == PathTick \/ PathMetrics

SpecPath == PathInit /\ [][PathNext]_vars

(***************************************************************************)
(* Sensor specification: the callback thread delivers frames with the left *)
(* hand, the right hand, both or none, while the main thread reads         *)
(***************************************************************************)
MaxFrames == 3

\* event.hands, in the order the sensor lists them
EventHands ==
    { << >>, << "left" >>, << "right" >>, << "left", "right" >>,
      << "right", "left" >> }

\* everything but the controller and its two threads
restVars ==
    << now, trackerFields, mainVars, loopVars, calibVars, calibLog, tick_log,
       press_log, window, window_args, probe >>

SensorInit ==
    /\ now = StartTime
    /\ TrackerInit
    /\ ManagerInit(None)

SensorFrame ==
    /\ last_frame_id < MaxFrames
    /\ \E hands \in EventHands :
          SensorAcquire([ tracking_frame_id |-> last_frame_id + 1,
                          hands |-> hands ])
    /\ UNCHANGED restVars

SensorStep ==
    /\ SensorStamp \/ SensorNewHands \/ SensorHand \/ SensorPublish
          \/ SensorRelease
    /\ UNCHANGED restVars

ReaderStep ==
    /\ ReaderAcquire \/ ReaderLeft \/ ReaderRight
    /\ UNCHANGED restVars

SensorNext == SensorFrame \/ SensorStep \/ ReaderStep

SpecSensor == SensorInit /\ [][SensorNext]_vars

(***************************************************************************)
(* Calibration-tick specification: the callback thread of the sensor runs  *)
(* beside the game loop in the state CALIBRATING.  One tick of              *)
(* _update_calibration is a sequence of steps of the main thread: the      *)
(* read of the controller made inside HandTracker.update, the rest of      *)
(* HandTracker.update, the read of the controller made by the tick itself, *)
(* and the call of update_calibration.                                     *)
(***************************************************************************)
MaxLoopTime == 4500

\* time between two ticks
LoopDt == 1500

\* everything but the controller, the game state and the position in the tick
loopRest ==
    << now, trackerFields, waiting_countdown, wait_log, calibVars, calibLog,
       tick_log, press_log, window, window_args, probe >>

LoopInit ==
    /\ now = StartTime
    /\ TrackerInit
    /\ ManagerInit(None)

\* the menu option that opens the calibration menu
LoopMenu ==
    /\ loop_pc = "idle"
    /\ game_state = MENU
    /\ game_state' = CALIBRATION_MENU
    /\ UNCHANGED << leapVars, loopVars, loopRest >>

\* SPACE in the calibration menu
LoopSpace ==
    /\ loop_pc = "idle"
    /\ game_state = CALIBRATION_MENU
    /\ start_calibration(now)
    /\ game_state' = CALIBRATING
    /\ last_call' = "start_calibration"
    /\ file_at_start' = calibration_file
    /\ UNCHANGED calib_log
    /\ UNCHANGED << trackerFields, leapVars, waiting_countdown, wait_log, loopVars,
                    tick_log, press_log, window, window_args, probe >>

\* "if not self.calibration.calibrating: state = MENU; return", and else
\* self.hand_tracker.update() is entered: its self.leap.update() takes the lock
LoopTrackerAcquire ==
    /\ loop_pc = "idle"
    /\ game_state = CALIBRATING
    /\ IF ~calibrating
       THEN /\ game_state' = MENU
            /\ UNCHANGED << leapVars, loopVars, loopRest >>
       ELSE /\ now + LoopDt <= StartTime + MaxLoopTime
            /\ ReaderAcquire
            /\ loop_pc' = "tracker_read"
            /\ UNCHANGED << loop_tracked, game_state, loopRest >>

\* the first get() of either read
LoopReadLeft ==
    /\ loop_pc \in { "tracker_read", "hand_data_read" }
    /\ ReaderLeft
    /\ UNCHANGED << loopVars, game_state, loopRest >>

\* self.leap.update() returns into HandTracker.update
LoopTrackerRead ==
    /\ loop_pc = "tracker_read"
    /\ ReaderRight
    /\ loop_tracked' = read_result'
    /\ loop_pc' = "tracker_update"
    /\ UNCHANGED << game_state, loopRest >>

\* the rest of HandTracker.update, on the dict it has read
LoopTrackerUpdate ==
    /\ loop_pc = "tracker_update"
    /\ update(now + LoopDt, Val(loop_tracked))
    /\ loop_pc' = "hand_data"
    /\ UNCHANGED loop_tracked

\* "hand_data = self.leap_controller.update()" takes the lock
LoopHandDataAcquire ==
    /\ loop_pc = "hand_data"
    /\ ReaderAcquire
    /\ loop_pc' = "hand_data_read"
    /\ UNCHANGED << loop_tracked, game_state, loopRest >>

\* "hand_data = self.leap_controller.update()" returns
LoopHandDataRead ==
    /\ loop_pc = "hand_data_read"
    /\ ReaderRight
    /\ loop_pc' = "calibrate"
    /\ UNCHANGED << loop_tracked, game_state, loopRest >>

\* "finger_angles = self.hand_tracker.get_all_finger_angles()", the call of
\* update_calibration(hand_data, finger_angles) and the test of its result
LoopCalibrate ==
    /\ loop_pc = "calibrate"
    /\ update_calibration(now, Val(read_result), finger_angles)
    /\ game_state' = IF still_calibrating' = Some(FALSE) THEN MENU ELSE game_state
    /\ loop_pc' = "idle"
    /\ last_call' = "update_calibration"
    /\ UNCHANGED << file_at_start, calib_log >>
    /\ UNCHANGED << trackerFields, leapVars, waiting_countdown, wait_log,
                    loop_tracked, tick_log, press_log, window, window_args, probe >>

LoopNext ==
    \/ SensorFrame \/ SensorStep
    \/ LoopMenu \/ LoopSpace
    \/ LoopTrackerAcquire \/ LoopReadLeft \/ LoopTrackerRead \/ LoopTrackerUpdate
    \/ LoopHandDataAcquire \/ LoopHandDataRead \/ LoopCalibrate

SpecLoop == LoopInit /\ [][LoopNext]_vars

(***************************************************************************)
(* Properties of the press detector                                        *)
(***************************************************************************)
\* a step in which update() ran
TickStep == Len(tick_log') = Len(tick_log) + 1

LastTick == tick_log[Len(tick_log)]

\* times of the PressEvents returned so far for finger f
FiredTimes(f) ==
    { press_log[i].t : i \in { j \in 1..Len(press_log) : press_log[j].finger = f } }

FiredCount(f) ==
    Cardinality({ j \in 1..Len(press_log) : press_log[j].finger = f })

\* ticks at which the signal of finger f went from below to above threshold
CrossTimes(f) ==
    { tick_log[k].t :
        k \in { j \in 1..Len(tick_log) :
                  /\ f \in tick_log[j].above
                  /\ (j = 1 \/ f \notin tick_log[j - 1].above) } }

AlwaysVisible(h) == \A k \in 1..Len(tick_log) : tick_log[k].visible[h]

PressOnDebouncedEdgeOnly ==
    TickStep =>
        \A i \in 1..Len(press_events') :
            LET f == press_events'[i]
            IN  /\ ~finger_states[f]
                /\ finger_states'[f]
                /\ \A k \in 1..Len(press_log) :
                      press_log[k].finger = f
                          => now' - press_log[k].t >= PRESS_DEBOUNCE_TIME

PressSpacing ==
    \A i, j \in 1..Len(press_log) :
        (i < j /\ press_log[i].finger = press_log[j].finger)
            => press_log[j].t - press_log[i].t >= PRESS_DEBOUNCE_TIME

\* between two PressEvents of a finger the finger was seen below threshold
OncePerHold ==
    \A i, j \in 1..Len(press_log) :
        (i < j /\ press_log[i].finger = press_log[j].finger)
            => \E k \in 1..Len(tick_log) :
                  /\ press_log[i].t < tick_log[k].t
                  /\ tick_log[k].t < press_log[j].t
                  /\ tick_log[k].visible[HandOf(press_log[i].finger)]
                  /\ press_log[i].finger \notin tick_log[k].above

\* C1: a PressEvent of a finger fires in a tick only if the finger's pressed
\* state went from false to true in that tick and at least 200 ms have passed
\* since every earlier PressEvent of that finger; so two PressEvents of one
\* finger are at least 200 ms apart and one hold fires at most once.
C1_DebouncedEdge ==
    [][PressOnDebouncedEdgeOnly]_vars /\ [](PressSpacing /\ OncePerHold)

\* two PressEvents of one finger exactly 200 ms apart, and a hold that
\* outlasted the debounce interval without firing again
C1_Witness ==
    /\ \E i, j \in 1..Len(press_log) :
          /\ press_log[i].finger = press_log[j].finger
          /\ press_log[j].t - press_log[i].t = PRESS_DEBOUNCE_TIME
    /\ \E k \in 1..Len(tick_log) :
          /\ k + 1 = Len(tick_log)
          /\ "right_thumb" \notin tick_log[k].above
          /\ "left_index" \in tick_log[k].above
          /\ "left_index" \in LastTick.above

\* the scenario of C2 for finger f, with t0 the time of the first crossing
ScenarioCrossings(f, t0) ==
    /\ AlwaysVisible(HandOf(f))
    /\ CrossTimes(f) = { t0, t0 + 100, t0 + 250 }

\* C2: on a fresh detector, a finger whose signal crosses the threshold
\* upwards at t0, t0 + 100 and t0 + 250 (and at no other time) has fired
\* exactly two PressEvents, at t0 and at t0 + 250.
C2_Scenario ==
    \A f \in FingerSet :
        \A t0 \in CrossTimes(f) :
            ScenarioCrossings(f, t0)
                => FiredTimes(f) = { t0, t0 + 250 } /\ FiredCount(f) = 2

C2_Witness ==
    \E t0 \in CrossTimes("left_index") :
        /\ ScenarioCrossings("left_index", t0)
        /\ FiredTimes("left_index") = { t0, t0 + 250 }

\* C3: a tick in which a hand is not visible returns no PressEvent for any
\* finger of that hand.
C3_NoPressForAbsentHand ==
    [][ TickStep =>
          \A h \in HandSet :
              ~tick_log'[Len(tick_log')].visible[h]
                  => \A i \in 1..Len(press_events') :
                        HandOf(press_events'[i]) # h ]_vars

\* the left hand vanished while its index was pressed, more than 200 ms
\* after that finger's PressEvent
C3_Witness ==
    /\ Len(tick_log) > 1
    /\ ~LastTick.visible["left"]
    /\ "left_index" \in tick_log[Len(tick_log) - 1].above
    /\ LastTick.t - last_press_time["left_index"] >= PRESS_DEBOUNCE_TIME
    /\ press_events = << >>

\* C4: in every tick in which a hand is not visible, the pressed state of
\* each of its fingers is false, in the detector and in the frame appended in
\* that tick.
C4_AbsentHandNotPressed ==
    Len(tick_log) > 0 =>
        \A f \in FingerSet :
            ~LastTick.visible[HandOf(f)] =>
                /\ ~finger_states[f]
                /\ (Len(frame_buffer) > 0
                      /\ Last(frame_buffer).timestamp_ms = LastTick.t)
                        => ~Last(frame_buffer).fingers[f].is_pressed

(***************************************************************************)
(* Properties of the frame buffer                                          *)
(***************************************************************************)
\* ceil(BUFFER_DURATION_MS / FRAME_SAMPLE_RATE_MS)
CeilCapacity ==
    (BUFFER_DURATION_MS + FRAME_SAMPLE_RATE_MS - 1) \div FRAME_SAMPLE_RATE_MS

\* a step that appended a frame
AppendStep == TickStep /\ last_buffer_sample_time' # last_buffer_sample_time

\* C5: the frame buffer never holds more than ceil(1000/16) = 63 frames, and
\* an append that does not make the buffer longer drops exactly the oldest
\* frame.
C5_Capacity ==
    /\ [](Len(frame_buffer) <= CeilCapacity)
    /\ [][ AppendStep =>
              \/ frame_buffer' = Append(frame_buffer, Last(frame_buffer'))
              \/ /\ Len(frame_buffer') = Len(frame_buffer)
                 /\ frame_buffer' =
                       Append(Tail(frame_buffer), Last(frame_buffer')) ]_vars

\* the buffer is full and its first frames have been evicted
C5_Witness ==
    /\ Len(frame_buffer) = BufferMaxLen
    /\ frame_buffer[1].timestamp_ms > tick_log[2].t

\* C6: no frame in the buffer is more than 1000 ms older than the newest.
C6_NoFrameOlderThanDuration ==
    \A i \in 1..Len(frame_buffer) :
        Last(frame_buffer).timestamp_ms - frame_buffer[i].timestamp_ms
            <= BUFFER_DURATION_MS

\* C7: buffered timestamps strictly increase; a tick appends at most one
\* frame, and only when at least 16 ms passed since the last appended frame.
C7_StrictlyOrdered ==
    /\ [](\A i \in 1..Len(frame_buffer) - 1 :
             frame_buffer[i].timestamp_ms < frame_buffer[i + 1].timestamp_ms)
    /\ [][ TickStep =>
              \/ frame_buffer' = frame_buffer
              \/ /\ \/ frame_buffer' = Append(frame_buffer, Last(frame_buffer'))
                    \/ frame_buffer' =
                          Append(Tail(frame_buffer), Last(frame_buffer'))
                 /\ Last(frame_buffer').timestamp_ms = now'
                 /\ frame_buffer # << >> =>
                       now' - Last(frame_buffer).timestamp_ms
                           >= FRAME_SAMPLE_RATE_MS ]_vars

\* a tick that came less than 16 ms after the last frame and appended nothing
C7_Witness ==
    /\ Len(frame_buffer) > 1
    /\ LastTick.t > Last(frame_buffer).timestamp_ms
    /\ LastTick.t - Last(frame_buffer).timestamp_ms < FRAME_SAMPLE_RATE_MS

\* a step in which get_frames_in_window returned
QueryStep ==
    /\ tick_log' = tick_log
    /\ << window, window_args >>' # << window, window_args >>

\* C8: get_frames_in_window returns exactly the stored frames with
\* center - before <= timestamp <= center + after, each once, in
\* chronological order, and leaves the buffer unchanged.
C8_WindowExact ==
    [][ QueryStep =>
          LET a == Val(window_args')
              inside == { i \in 1..Len(frame_buffer) :
                            /\ a.center - a.before <= frame_buffer[i].timestamp_ms
                            /\ frame_buffer[i].timestamp_ms <= a.center + a.after }
          IN  /\ frame_buffer' = frame_buffer
              /\ Len(window') = Cardinality(inside)
              /\ Range(window') = { frame_buffer[i] : i \in inside }
              /\ \A k \in 1..Len(window') - 1 :
                    window'[k].timestamp_ms < window'[k + 1].timestamp_ms ]_vars

\* a query whose bounds both coincide with stored frames and that left out
\* older and newer frames
C8_Witness ==
    /\ ~IsNone(window_args)
    /\ Len(window) > 1
    /\ window[1].timestamp_ms = Val(window_args).center - Val(window_args).before
    /\ Last(window).timestamp_ms = Val(window_args).center + Val(window_args).after
    /\ frame_buffer[1].timestamp_ms < window[1].timestamp_ms
    /\ Last(frame_buffer).timestamp_ms > Last(window).timestamp_ms

(***************************************************************************)
(* Properties of the calibration procedure                                 *)
(***************************************************************************)
PhaseOrder ==
    << "countdown", "baseline_left", "baseline_right", "calibrating_finger",
       "complete" >>

ActivePhases == { PhaseOrder[i] : i \in 1..(Len(PhaseOrder) - 1) }

\* q is the immediate successor of p in PhaseOrder
ImmediateSuccessor(p, q) ==
    \E i \in 1..(Len(PhaseOrder) - 1) : p = PhaseOrder[i] /\ q = PhaseOrder[i + 1]

\* the file holds a profile written after the objects were constructed
WrittenThisSession ==
    ~IsNone(calibration_file) /\ Val(calibration_file).timestamp.value >= StartTime

AllRecorded(data) == \A f \in FingerSet : ~IsNone(data[f])

PhaseChangeInOrder ==
    /\ last_call' = "start_calibration" =>
          calibration_phase \notin ActivePhases /\ calibration_phase' = "countdown"
    /\ last_call' = "update_calibration" =>
          \/ calibration_phase' = calibration_phase
          \/ ImmediateSuccessor(calibration_phase, calibration_phase')
    /\ last_call' = "cancel_calibration" => calibration_phase' = "idle"
    /\ calibration_phase' # calibration_phase =>
          last_call' \in { "start_calibration", "update_calibration",
                           "cancel_calibration" }

\* C9: within a run begun by start_calibration (which enters countdown from
\* a phase that is not active), a call of update_calibration leaves the phase
\* alone or moves it to its immediate successor in countdown, baseline_left,
\* baseline_right, calibrating_finger, complete; the only other change of the
\* phase is cancel_calibration, which leads to idle; and a run is in progress
\* exactly in the active phases.
C9_PhaseOrder ==
    /\ [][PhaseChangeInOrder]_vars
    /\ [](calibrating <=> calibration_phase \in ActivePhases)

\* a run went through every phase to complete and wrote its profile, then a
\* second run was started and cancelled
C9_Witness ==
    /\ last_call = "cancel_calibration"
    /\ calibration_phase = "idle"
    /\ WrittenThisSession
    /\ ~AllRecorded(calibration_data)

WriteOnlyAtCompletion ==
    calibration_file' # calibration_file =>
        /\ last_call' = "update_calibration"
        /\ calibration_phase = "calibrating_finger"
        /\ calibration_phase' = "complete"
        /\ AllRecorded(calibration_data')
        /\ calibration_file' =
              Some(SavedProfile(thresholds', angle_thresholds', baseline_angles',
                                calibration_data', calibrated_palm_positions',
                                now'))

CancelWritesNothing ==
    last_call' = "cancel_calibration" => calibration_file' = calibration_file

\* C10: the file changes only in the call of update_calibration that moves
\* calibrating_finger to complete, and then holds the profile with all ten
\* fingers recorded; while a run is in progress the file is as
\* start_calibration found it, and cancel_calibration does not change it.
C10_WriteOnlyAtComplete ==
    /\ [][WriteOnlyAtCompletion /\ CancelWritesNothing]_vars
    /\ [](calibrating => calibration_file = file_at_start)

\* a run cancelled in the finger phase, after baselines were captured and
\* fingers recorded, with the earlier profile still on disk
C10_Witness ==
    /\ last_call = "cancel_calibration"
    /\ calibration_file = Some(EarlierProfile)
    /\ left_baseline_captured /\ right_baseline_captured
    /\ \E f \in FingerSet : ~IsNone(calibration_data[f])
    /\ baseline_angles # LoadedProfile(EarlierProfile).baseline_angles

CancelResets ==
    last_call' = "cancel_calibration" =>
        /\ ~calibrating'
        /\ calibration_phase' = "idle"
        /\ current_finger_index' = 0
        /\ \A f \in FingerSet : baseline_samples'[f] = << >>
        /\ IsNone(threshold_reached_time')

IdleUpdateDoesNothing ==
    (last_call' = "update_calibration" /\ calibration_phase = "idle") =>
        /\ still_calibrating' = Some(FALSE)
        /\ UNCHANGED << calibration_file, profileVars, procedureVars >>

\* C11: cancel_calibration leaves calibrating false, the phase idle, the
\* finger index 0, every baseline sample list empty and the hold timer
\* cleared; in the idle phase an update returns False and changes no field
\* of the manager, and the phase is left only by start_calibration.
C11_CancelResets ==
    /\ [][CancelResets /\ IdleUpdateDoesNothing]_vars
    /\ [][(calibration_phase = "idle" /\ calibration_phase' # "idle") =>
              last_call' = "start_calibration"]_vars

\* an update that returned False after a run was cancelled with its hold
\* timer running and baseline samples collected
C11_Witness ==
    /\ last_call = "update_calibration"
    /\ still_calibrating = Some(FALSE)
    /\ calibration_phase = "idle"
    /\ palm_position_samples["left"] # << >>
    /\ \E f \in FingerSet : ~IsNone(calibration_data[f])
    /\ current_finger_angle_from_baseline.num >=
          FINGER_PRESS_ANGLE_THRESHOLD * current_finger_angle_from_baseline.den

(***************************************************************************)
(* Properties of the baseline capture                                      *)
(***************************************************************************)
PhaseHand(phase) == IF phase = "baseline_left" THEN "left" ELSE "right"

HandFingers(hand) ==
    IF hand = "left" THEN Range(LEFT_FINGERS) ELSE Range(RIGHT_FINGERS)

\* the frame of entry e was taken as a sample: the hand being captured was
\* visible, the phase did not expire in the call, and the last sample was
\* taken at least sample_delay earlier, at last_t
IsSampleFrame(e, last_t) ==
    /\ e.call = "update_calibration"
    /\ e.phase \in { "baseline_left", "baseline_right" }
    /\ e.phase_after = e.phase
    /\ e.visible[PhaseHand(e.phase)]
    /\ e.t - last_t >= sample_delay

\* the angle inputs of the sample frames of `hand` recorded in log[i..] since
\* the last start or cancel, given the samples acc collected before
RECURSIVE FramesSampled(_, _, _, _, _)
FramesSampled(log, i, hand, last_t, acc) ==
    IF i > Len(log) THEN acc
    ELSE IF log[i].call # "update_calibration"
    THEN FramesSampled(log, i + 1, hand, last_t, << >>)
    ELSE IF IsSampleFrame(log[i], last_t)
    THEN FramesSampled(log, i + 1, hand, log[i].t,
                       IF PhaseHand(log[i].phase) = hand
                       THEN Append(acc, log[i].angle) ELSE acc)
    ELSE FramesSampled(log, i + 1, hand, last_t, acc)

\* the arithmetic mean of the angles of finger f in those frames, 0 if none
MeanOfRun(log, hand, f) ==
    LET inputs == FramesSampled(log, 1, hand, 0, << >>)
        n == Len(inputs)
    IN  IF n = 0 THEN RatInt(0)
        ELSE Rat(SumSeq(inputs) + n * FingerIndex(f), n)

BaselineExpires(hand) ==
    /\ last_call' = "update_calibration"
    /\ PhaseHand(calibration_phase) = hand
    /\ calibration_phase \in { "baseline_left", "baseline_right" }
    /\ calibration_phase' # calibration_phase

BaselineIsMean ==
    \A hand \in HandSet :
        BaselineExpires(hand) =>
            \A f \in FingerSet :
                baseline_angles'[f] =
                    IF f \in HandFingers(hand)
                    THEN Some(MeanOfRun(calib_log, hand, f))
                    ELSE baseline_angles[f]

\* C12: the update in which the capture of a hand expires sets the baseline
\* of each finger of that hand to the arithmetic mean of the angles it had in
\* the frames sampled for that hand since the run was started, to 0 if no
\* frame was sampled, and leaves the baselines of the other hand alone.
C12_BaselineIsMean == [][BaselineIsMean]_vars

\* the capture of the left hand expired after exactly 60 samples of 10
\* degrees for left_pinky, whose baseline is 10
C12_Witness ==
    /\ left_baseline_captured
    /\ Len(baseline_samples["left_pinky"]) = 60
    /\ \A i \in 1..60 : baseline_samples["left_pinky"][i] = 10
    /\ baseline_angles["left_pinky"] = Some(RatInt(10))

(***************************************************************************)
(* Properties of the finger phase                                          *)
(***************************************************************************)
\* entry e records an update of the finger phase for finger number idx
IsFingerUpdate(e, idx) ==
    /\ e.call = "update_calibration"
    /\ e.phase = "calibrating_finger"
    /\ e.index = idx

\* ... in which the hand of the finger was visible
HandShown(e, idx) == e.visible[HandOf(FINGER_NAMES[idx + 1])]

\* ... with the finger at least 30 degrees above its baseline
ValueAbove(e, idx) ==
    LET f == FINGER_NAMES[idx + 1]
        b == Val(baseline_angles[f])
    IN  /\ IsFingerUpdate(e, idx)
        /\ HandShown(e, idx)
        /\ (e.angle + FingerIndex(f)) * b.den - b.num
              >= FINGER_PRESS_ANGLE_THRESHOLD * b.den

\* the entries from which on every entry of log is ValueAbove for idx
HoldFrames(log, idx) ==
    { j \in 1..Len(log) : \A k \in j..Len(log) : ValueAbove(log[k], idx) }

\* the time of the first of them: the start of the present hold
HoldBegin(log, idx) ==
    LET first == CHOOSE j \in HoldFrames(log, idx) :
                     \A k \in HoldFrames(log, idx) : j <= k
    IN  IF HoldFrames(log, idx) = { } THEN None ELSE Some(log[first].t)

FingerUpdateStep ==
    /\ last_call' = "update_calibration"
    /\ calibration_phase = "calibrating_finger"
    /\ Len(calib_log') = Len(calib_log) + 1

\* C13 (step): the finger is recorded and the index advanced exactly in an
\* update whose value is at least 30 degrees above the baseline and that ends
\* an unbroken series of such updates begun at least 500 ms earlier; an update
\* with the hand shown and the value below 30 degrees clears the hold timer.
HoldDebounce ==
    FingerUpdateStep =>
        LET idx == current_finger_index
            f == FINGER_NAMES[idx + 1]
            e == calib_log'[Len(calib_log')]
            start == HoldBegin(calib_log', idx)
            recorded == /\ current_finger_index' = idx + 1
                        /\ ~IsNone(calibration_data'[f])
        IN  /\ recorded <=>
                  (~IsNone(start) /\ e.t - Val(start) >= hold_time_required)
            /\ ~recorded =>
                  /\ current_finger_index' = idx
                  /\ calibration_data' = calibration_data
                  /\ threshold_reached_time' = start
            /\ (HandShown(e, idx) /\ ~ValueAbove(e, idx)) =>
                  IsNone(threshold_reached_time')

\* C13: HoldDebounce at every update of the finger phase, and between
\* updates the hold timer is the start of the present hold.
C13_HoldDebounce ==
    /\ [][HoldDebounce]_vars
    /\ [](calibration_phase = "calibrating_finger" =>
            threshold_reached_time = HoldBegin(calib_log, current_finger_index))

\* left_pinky was recorded after its value had reached the threshold, dropped
\* below it with the hand shown, and reached it again
C13_Witness ==
    /\ current_finger_index = 1
    /\ ~IsNone(calibration_data["left_pinky"])
    /\ \E i, j, k \in 1..Len(calib_log) :
          /\ i < j /\ j < k
          /\ ValueAbove(calib_log[i], 0)
          /\ IsFingerUpdate(calib_log[j], 0)
          /\ HandShown(calib_log[j], 0)
          /\ ~ValueAbove(calib_log[j], 0)
          /\ ValueAbove(calib_log[k], 0)
          /\ calib_log[k].t - calib_log[j].t >= hold_time_required

\* C14 (step): an update of the finger phase in which the hand of the active
\* finger is not shown returns True, clears the hold timer and changes no
\* other field of the manager.
AbsentHandStalls ==
    (FingerUpdateStep
        /\ ~HandShown(calib_log'[Len(calib_log')], current_finger_index)) =>
        /\ still_calibrating' = Some(TRUE)
        /\ IsNone(threshold_reached_time')
        /\ UNCHANGED << calibration_file, profileVars, calibrating,
                        current_finger_index, calibration_phase,
                        countdown_start, baseline_samples, baseline_start_time,
                        left_baseline_captured, right_baseline_captured,
                        palm_position_samples, current_finger_angle,
                        current_finger_angle_from_baseline, last_sample_time,
                        phase_start_time >>

\* C14 (no timeout): calibrating becomes false only in a cancel or in the
\* update that records the last finger.
StopsOnlyByCancelOrCompletion ==
    (calibrating /\ ~calibrating') =>
        \/ last_call' = "cancel_calibration"
        \/ /\ last_call' = "update_calibration"
           /\ calibration_phase' = "complete"
           /\ AllRecorded(calibration_data')

\* C14: both of the above at every step.
C14_AbsentHandStalls == [][AbsentHandStalls /\ StopsOnlyByCancelOrCompletion]_vars

\* the hold timer was running when the hand went away for a minute; after
\* the update the run is still in progress at the same finger, nothing is
\* recorded and the timer is cleared
C14_Witness ==
    /\ calibrating
    /\ calibration_phase = "calibrating_finger"
    /\ current_finger_index = 0
    /\ IsNone(calibration_data["left_pinky"])
    /\ IsNone(threshold_reached_time)
    /\ still_calibrating = Some(TRUE)
    /\ Len(calib_log) >= 2
    /\ ~HandShown(calib_log[Len(calib_log)], 0)
    /\ calib_log[Len(calib_log)].t - calib_log[Len(calib_log) - 1].t = LongAbsence
    /\ ValueAbove(calib_log[Len(calib_log) - 1], 0)

(***************************************************************************)
(* Properties of the order of the fingers and of the completion            *)
(***************************************************************************)
\* the fingers recorded in calibration_data
Recorded(data) == { f \in FingerSet : ~IsNone(data[f]) }

\* the first n fingers of FINGER_NAMES
FirstFingers(n) == { FINGER_NAMES[i] : i \in 1..n }

FingerOrderStep ==
    /\ (calibration_phase # "calibrating_finger"
           /\ calibration_phase' = "calibrating_finger") =>
          current_finger_index' = 0
    /\ current_finger_index' # current_finger_index =>
          \/ /\ last_call' \in { "start_calibration", "cancel_calibration" }
             /\ current_finger_index' = 0
          \/ /\ last_call' = "update_calibration"
             /\ calibration_phase = "calibrating_finger"
             /\ current_finger_index' = current_finger_index + 1
             /\ IsNone(calibration_data[FINGER_NAMES[current_finger_index + 1]])
             /\ Recorded(calibration_data') =
                   Recorded(calibration_data)
                      \cup { FINGER_NAMES[current_finger_index + 1] }
    /\ (last_call' = "update_calibration"
           /\ calibration_data' # calibration_data) =>
          current_finger_index' = current_finger_index + 1

CompletionStep ==
    (last_call' = "update_calibration"
        /\ current_finger_index' = Len(FINGER_NAMES)
        /\ current_finger_index = Len(FINGER_NAMES) - 1) =>
        /\ calibration_phase' = "complete"
        /\ is_calibrated'
        /\ calibration_file = file_at_start
        /\ \/ calibration_file' =
                 Some(SavedProfile(thresholds', angle_thresholds',
                                   baseline_angles', calibration_data',
                                   calibrated_palm_positions', now'))
           \/ calibration_file' = calibration_file

\* C15: the index is 0 on entering the finger phase, stays within 0..10, and
\* within a run changes only by 1 upwards, in the update that records the
\* finger FINGER_NAMES[index], so that the recorded fingers are always the
\* first `index` fingers of FINGER_NAMES; the update that records the tenth
\* finger makes the phase complete, sets is_calibrated and saves the profile,
\* which is the only change of the file in the run (a write that fails with
\* an IOError leaves the file as it was).
C15_FingerOrder ==
    /\ [][FingerOrderStep /\ CompletionStep]_vars
    /\ [](current_finger_index \in 0..Len(FINGER_NAMES))
    /\ [](calibration_phase \in { "calibrating_finger", "complete" } =>
            Recorded(calibration_data) = FirstFingers(current_finger_index))
    /\ [](calibration_phase = "complete" =>
            current_finger_index = Len(FINGER_NAMES) /\ is_calibrated)
    /\ [][calibration_file' # calibration_file =>
            current_finger_index' = Len(FINGER_NAMES)
               /\ calibration_file = file_at_start]_vars

\* the update that recorded the tenth finger: the phase is complete and the
\* file holds the profile of this run with all ten fingers
C15_Witness ==
    /\ last_call = "update_calibration"
    /\ calibration_phase = "complete"
    /\ current_finger_index = Len(FINGER_NAMES)
    /\ is_calibrated
    /\ Recorded(calibration_data) = FingerSet
    /\ calibration_file # file_at_start
    /\ calibration_file =
          Some(SavedProfile(thresholds, angle_thresholds, baseline_angles,
                            calibration_data, calibrated_palm_positions, now))

(***************************************************************************)
(* Properties of the value returned by update_calibration                  *)
(***************************************************************************)
\* C16: after a call of update_calibration, the value it returned is True
\* exactly when the calibration is still in progress.
C16_ReturnsProgress ==
    last_call = "update_calibration" => still_calibrating = Some(calibrating)

(***************************************************************************)
(* Properties of check_hand_positions                                      *)
(***************************************************************************)
\* twice the rational r, whose denominator is 1 or 2
Twice(r) == r.num * (2 \div r.den)

\* the Euclidean distance between the integer point p and the rational
\* point q is at most tol (decided on the doubled coordinates)
Near(p, q, tol) ==
    LET dx == 2 * p[1] - Twice(q[1])
        dy == 2 * p[2] - Twice(q[2])
        dz == 2 * p[3] - Twice(q[3])
    IN  dx * dx + dy * dy + dz * dz <= 4 * tol * tol

HandOk(hand_data, hand) ==
    \/ IsNone(calibrated_palm_positions[hand])
    \/ /\ ~IsNone(hand_data[hand])
       /\ Near(Val(hand_data[hand]).palm_position,
               Val(calibrated_palm_positions[hand]), DEFAULT_TOLERANCE)

\* C17: both_in_position is true exactly when each hand either has no
\* calibrated palm position or is visible with its palm within 50 mm
\* (inclusive) of it; the call changes no state of the manager.
C17_BothInPosition ==
    /\ [](~IsNone(probe) =>
            (Val(probe).result.both_in_position <=>
                (HandOk(Val(probe).args, "left")
                    /\ HandOk(Val(probe).args, "right"))))
    /\ [][probe' # probe => UNCHANGED << calibVars, trackerVars >>]_vars

\* only the left hand has a reference; its palm is exactly 50 mm away and
\* the right hand is not visible: both_in_position is true
C17_Witness ==
    /\ ~IsNone(probe)
    /\ ~IsNone(calibrated_palm_positions["left"])
    /\ IsNone(calibrated_palm_positions["right"])
    /\ IsNone(Val(probe).args["right"])
    /\ ~IsNone(Val(probe).args["left"])
    /\ Val(Val(probe).args["left"]).palm_position = << 30, 190, 0 >>
    /\ Val(probe).result.both_in_position

(***************************************************************************)
(* Properties of the trial metrics                                         *)
(***************************************************************************)
\* the trial whose metrics were computed last
Trial == Val(probe).args
Metrics == Val(probe).result

RECURSIVE SumValues(_, _)
SumValues(d, keys) ==
    IF keys = {} THEN 0
    ELSE LET k == CHOOSE x \in keys : TRUE
         IN  d[k] + SumValues(d, keys \ { k })

\* T and N in position units
TargetTravel == Metrics.target_path_length
OtherTravel ==
    SumValues(Metrics.non_target_path_lengths,
              DOMAIN Metrics.non_target_path_lengths)

\* T > 0.001 mm
TargetMoved == 1000 * TargetTravel > UnitsPerMm

\* C18: with T the target finger's path length and N the sum of the other
\* nine fingers' path lengths, the motion leakage ratio is N / T when
\* T > 0.001 mm, infinite when T <= 0.001 mm and N > 0, and 0 when
\* T <= 0.001 mm and N = 0.
C18_LeakageRatio ==
    ~IsNone(probe) =>
        /\ DOMAIN Metrics.non_target_path_lengths
              = FingerSet \ { Trial.target_finger }
        /\ TargetMoved =>
              /\ Metrics.motion_leakage_ratio.den > 0
              /\ Metrics.motion_leakage_ratio.num * TargetTravel
                    = OtherTravel * Metrics.motion_leakage_ratio.den
        /\ (~TargetMoved /\ OtherTravel > 0) =>
              Metrics.motion_leakage_ratio = Infinity
        /\ (~TargetMoved /\ OtherTravel = 0) =>
              Metrics.motion_leakage_ratio = RatInt(0)

\* the target moved 0.0005 mm and the other fingers 5 mm: the ratio is
\* infinite
C18_Witness ==
    /\ ~IsNone(probe)
    /\ 2000 * TargetTravel = UnitsPerMm
    /\ OtherTravel = 5 * UnitsPerMm
    /\ Metrics.motion_leakage_ratio = Infinity

\* MLR <= 0.10
LowLeakage ==
    /\ Metrics.motion_leakage_ratio.den > 0
    /\ 10 * Metrics.motion_leakage_ratio.num <= Metrics.motion_leakage_ratio.den

\* C19: is_clean_trial is true exactly when the target finger is the pressed
\* finger, coupled_keypress is false and the motion leakage ratio is at most
\* 0.10; is_wrong_finger is true exactly when the two fingers differ; a
\* wrong-finger trial and a trial with an infinite ratio are never clean.
C19_CleanTrial ==
    ~IsNone(probe) =>
        /\ Metrics.is_clean_trial <=>
              /\ Trial.target_finger = Trial.pressed_finger
              /\ ~Metrics.coupled_keypress
              /\ LowLeakage
        /\ Metrics.is_wrong_finger <=>
              Trial.target_finger # Trial.pressed_finger
        /\ Metrics.is_wrong_finger => ~Metrics.is_clean_trial
        /\ Metrics.motion_leakage_ratio = Infinity => ~Metrics.is_clean_trial

\* right_middle was pressed in the window of a trial whose target was
\* right_index, 350 ms after the missile was spawned: a wrong-finger trial,
\* not clean
C19_Witness ==
    /\ ~IsNone(probe)
    /\ Trial.target_finger = "right_index"
    /\ Trial.pressed_finger = "right_middle"
    /\ Metrics.reaction_time_ms = 350
    /\ \E i \in 1..Len(window) : window[i].fingers["right_middle"].is_pressed
    /\ ~Metrics.coupled_keypress
    /\ Metrics.is_wrong_finger
    /\ ~Metrics.is_clean_trial

\* the fingers that some frame of the window records as pressed
PressedInWindow ==
    { f \in FingerSet :
        \E i \in 1..Len(window) :
            /\ f \in DOMAIN window[i].fingers
            /\ window[i].fingers[f].is_pressed }

\* C20: coupled_keypress is true exactly when some frame of the trial window
\* records is_pressed for a finger other than pressed_finger; the pressed
\* finger's own state never makes it true, and the target finger counts as
\* another finger when it is not the pressed one.
C20_CoupledKeypress ==
    ~IsNone(probe) =>
        /\ Metrics.coupled_keypress <=>
              PressedInWindow \ { Trial.pressed_finger } # {}
        /\ PressedInWindow \subseteq { Trial.pressed_finger } =>
              ~Metrics.coupled_keypress
        /\ (Trial.target_finger # Trial.pressed_finger
               /\ Trial.target_finger \in PressedInWindow) =>
              Metrics.coupled_keypress

\* only the target right_index is pressed in the window and the trial names
\* right_middle as the pressed finger: the press is coupled
C20_Witness ==
    /\ ~IsNone(probe)
    /\ Trial.target_finger = "right_index"
    /\ Trial.pressed_finger = "right_middle"
    /\ PressedInWindow = { "right_index" }
    /\ Metrics.coupled_keypress

\* every path length of the metrics is 0
NoTravel ==
    /\ Metrics.target_path_length = 0
    /\ \A f \in DOMAIN Metrics.non_target_path_lengths :
          Metrics.non_target_path_lengths[f] = 0

\* C21: on a window of no frame or of one frame calculate_trial_metrics
\* returns metrics with path length 0 for all ten fingers and a motion
\* leakage ratio of 0.
C21_ShortWindow ==
    (~IsNone(probe) /\ Len(window) < 2) =>
        /\ { Trial.target_finger } \cup DOMAIN Metrics.non_target_path_lengths
              = FingerSet
        /\ NoTravel
        /\ Metrics.motion_leakage_ratio = RatInt(0)

\* the metrics of a window of one frame, in which the target is pressed
C21_Witness ==
    /\ ~IsNone(probe)
    /\ Len(window) = 1
    /\ window[1].fingers[Trial.target_finger].is_pressed
    /\ NoTravel
    /\ Metrics.motion_leakage_ratio = RatInt(0)

(***************************************************************************)
(* Properties of the path lengths                                          *)
(***************************************************************************)
MaxOf(a, b) == IF a >= b THEN a ELSE b

\* the distance between two points: the d >= 0 with d * d the squared
\* distance; it lies between the largest coordinate difference and the sum
\* of the differences
StepLength(p, q) ==
    LET dx == Abs(q[1] - p[1])
        dy == Abs(q[2] - p[2])
        dz == Abs(q[3] - p[3])
    IN  CHOOSE d \in MaxOf(dx, MaxOf(dy, dz))..(dx + dy + dz) :
            d * d = dx * dx + dy * dy + dz * dz

\* the tip of a finger in the i-th frame of the window
TipAt(f, i) == window[i].fingers[f].tip_position

RECURSIVE TravelUpTo(_, _)
TravelUpTo(f, i) ==
    IF i <= 1 THEN 0
    ELSE TravelUpTo(f, i - 1) + StepLength(TipAt(f, i - 1), TipAt(f, i))

\* the path length the metrics report for a finger
ReportedTravel(f) ==
    IF f = Trial.target_finger THEN Metrics.target_path_length
    ELSE Metrics.non_target_path_lengths[f]

WindowInTimeOrder ==
    \A i \in 1..(Len(window) - 1) :
        window[i].timestamp_ms <= window[i + 1].timestamp_ms

\* C22: the path length of every finger is the sum, over the pairs of
\* frames of the window that follow each other in time, of the distance
\* between its fingertip positions in the two frames; a fingertip that moves
\* out and back to its start has a path length greater than 0.
C22_PathLength ==
    ~IsNone(probe) =>
        /\ WindowInTimeOrder
        /\ \A f \in FingerSet : ReportedTravel(f) = TravelUpTo(f, Len(window))
        /\ \A f \in FingerSet :
              (Len(window) = 3 /\ TipAt(f, 1) = TipAt(f, 3)
                 /\ TipAt(f, 2) # TipAt(f, 1)) => ReportedTravel(f) > 0

\* the tip of the target moved (0, 0, 0), (0, 10, 0), (0, 20, 0) over three
\* frames: its path length is 20 mm
C22_Witness ==
    /\ ~IsNone(probe)
    /\ Len(window) = 3
    /\ Trial.target_finger = "right_index"
    /\ TipAt("right_index", 1) = << 0, 0, 0 >>
    /\ TipAt("right_index", 2) = << 0, 10 * UnitsPerMm, 0 >>
    /\ TipAt("right_index", 3) = << 0, 20 * UnitsPerMm, 0 >>
    /\ Metrics.target_path_length = 20 * UnitsPerMm

(***************************************************************************)
(* Properties of the saved profile                                         *)
(***************************************************************************)
\* a new manager is constructed after this manager has written the file
LoadsOwnProfile ==
    /\ last_call' = "__init__"
    /\ calibration_phase = "complete"
    /\ calibration_file # file_at_start

ComparedAngle(f) ==
    IF IsNone(baseline_angles[f]) THEN RatInt(finger_angles[f])
    ELSE Rat(finger_angles[f] * Val(baseline_angles[f]).den
               - Val(baseline_angles[f]).num,
             Val(baseline_angles[f]).den)

AtOrAbove(r, threshold) == r.num >= threshold * r.den

\* C24: after a tick, the pressed state of every finger of a visible hand is
\* (raw angle >= angle threshold) when the finger has no baseline and
\* (raw angle - baseline >= angle threshold) when it has one.
C24_RawAngleFallback ==
    Len(tick_log) > 0 =>
        \A f \in FingerSet :
            LastTick.visible[HandOf(f)] =>
                (finger_states[f] <=>
                    AtOrAbove(ComparedAngle(f), angle_thresholds[f]))

\* without a baseline a finger flexed by exactly 30 degrees is pressed
C24_Witness ==
    /\ Len(tick_log) > 0
    /\ IsNone(baseline_angles["right_index"])
    /\ finger_angles["right_index"] = angle_thresholds["right_index"]
    /\ finger_states["right_index"]

(***************************************************************************)
(* Properties of the sensor handoff                                        *)
(***************************************************************************)
\* C25: under every interleaving of the callback thread with update(), the
\* dict update() returns is the left/right pair of one frame of the sensor
\* (or the pair the controller starts with), and while update() is between
\* its two reads the callback thread is not inside _on_tracking.
C25_OneFrame ==
    /\ ~IsNone(read_result) => Val(read_result) \in published
    /\ reader_pc # "idle" => sensor_pc = "idle"

\* the first frame showed the left hand; update() has returned the two
\* hands of the second frame, and a third frame has been delivered since
C25_Witness ==
    /\ ~IsNone(read_result)
    /\ Val(read_result) = [ left |-> FrameHand(2), right |-> FrameHand(2) ]
    /\ last_frame_id = 3
    /\ FrameHand(1) \in { p.left : p \in published }

(***************************************************************************)
(* Properties of reset_calibration                                         *)
(***************************************************************************)
\* C26: after reset_calibration every baseline angle is None, every angle
\* threshold is the default, both reference palm positions are None and
\* has_calibration() is false, and check_hand_positions reports
\* both_in_position for any hand data.
C26_ResetEmpties ==
    last_call = "reset_calibration" =>
        /\ \A f \in FingerSet :
              /\ IsNone(baseline_angles[f])
              /\ angle_thresholds[f] = FINGER_PRESS_ANGLE_THRESHOLD
        /\ \A h \in HandSet : IsNone(calibrated_palm_positions[h])
        /\ ~is_calibrated
        /\ ~IsNone(probe) => Val(probe).result.both_in_position

(***************************************************************************)
(* Properties of the debounce state                                        *)
(***************************************************************************)
\* what a tick does to finger b, told from b's own signal and history alone
OwnEffect(b) ==
    LET seen == tick_log'[Len(tick_log')]
        fired == \E i \in 1..Len(press_events') : press_events'[i] = b
    IN  /\ fired <=>
              /\ seen.visible[HandOf(b)]
              /\ b \in seen.above
              /\ ~finger_states[b]
              /\ \A k \in 1..Len(press_log) :
                    press_log[k].finger = b
                        => now' - press_log[k].t >= PRESS_DEBOUNCE_TIME
        /\ last_press_time'[b] = IF fired THEN now' ELSE last_press_time[b]
        /\ finger_states'[b] =
              IF seen.visible[HandOf(b)] THEN b \in seen.above
              ELSE finger_states[b]

\* C27: the debounce state is per finger: in every tick the last-fired
\* timestamp and the pressed state of a finger B change only by B's own
\* signal and B's own earlier PressEvents, whatever the tick does to any
\* other finger A; a press of B fires however recently A fired.
C27_PerFingerDebounce ==
    [][TickStep => \A b \in FingerSet : OwnEffect(b)]_vars

\* right_index fired less than 200 ms after left_index fired, and a second
\* press of left_index was suppressed in between
C27_Witness ==
    \E i, j \in 1..Len(press_log) :
        /\ press_log[i].finger = "left_index"
        /\ press_log[j].finger = "right_index"
        /\ press_log[j].t > press_log[i].t
        /\ press_log[j].t - press_log[i].t < PRESS_DEBOUNCE_TIME
        /\ FiredCount("left_index") = 1
        /\ \E t \in CrossTimes("left_index") :
              /\ press_log[i].t < t
              /\ t < press_log[j].t

(***************************************************************************)
(* Properties of the frames of an absent hand                              *)
(***************************************************************************)
\* C28: a FrameSnapshot appended in a tick holds a FingerSnapshot of a finger
\* only if that finger's hand was visible in that tick; the fingers of an
\* absent hand are missing from the frame.
C28_SparseFrame ==
    (/\ Len(tick_log) > 0
     /\ Len(frame_buffer) > 0
     /\ Last(frame_buffer).timestamp_ms = LastTick.t)
        => \A f \in FingerSet :
              HasFinger(Last(frame_buffer), f) => LastTick.visible[HandOf(f)]

(***************************************************************************)
(* Properties of the countdown                                             *)
(***************************************************************************)
NoSampleCollected ==
    /\ baseline_samples' = baseline_samples
    /\ palm_position_samples' = palm_position_samples
    /\ \A f \in FingerSet : baseline_samples'[f] = << >>
    /\ \A h \in HandSet : palm_position_samples'[h] = << >>

\* start_calibration begins the countdown at the time of the call
CountdownBegins ==
    last_call' = "start_calibration" =>
        /\ calibration_phase' = "countdown"
        /\ countdown_start' = now'

\* an update in the countdown, told from the time since the countdown began
CountdownUpdate ==
    (/\ last_call' = "update_calibration"
     /\ calibrating
     /\ calibration_phase = "countdown")
        => /\ still_calibrating' = Some(TRUE)
           /\ NoSampleCollected
           /\ countdown_start' = countdown_start
           /\ calibration_phase' =
                 IF now' - countdown_start < countdown_duration
                 THEN "countdown" ELSE "baseline_left"

\* C29: while fewer than 5 s have passed since start_calibration, every
\* update_calibration leaves the phase at countdown, collects no angle or
\* palm sample and returns True; the first update at or after 5 s moves the
\* phase to baseline_left, whether or not a hand is visible.
C29_Countdown == [][CountdownBegins /\ CountdownUpdate]_vars

\* an update 2.5 s after the start left the countdown running, and the next
\* one, 7.5 s after the start, began the capture of the left hand
C29_Witness ==
    /\ last_call = "update_calibration"
    /\ calibration_phase = "baseline_left"
    /\ baseline_start_time = now
    /\ now - countdown_start = countdown_duration + countdown_duration \div 2
    /\ \A f \in FingerSet : baseline_samples[f] = << >>

(***************************************************************************)
(* Properties of the sampling in the baseline capture                      *)
(***************************************************************************)
\* the time of the update that entered the phase the run is in
PhaseBegan ==
    LET entered == { i \in 1..Len(calib_log) :
                       /\ calib_log[i].phase # calibration_phase
                       /\ calib_log[i].phase_after = calibration_phase }
    IN  calib_log[CHOOSE i \in entered : \A j \in entered : j <= i].t

\* some list of angle or palm samples grew in the step
SampleAppended ==
    \/ \E f \in FingerSet : Len(baseline_samples'[f]) > Len(baseline_samples[f])
    \/ \E h \in HandSet :
          Len(palm_position_samples'[h]) > Len(palm_position_samples[h])

\* last_sample_time is the time of the latest step that appended a sample,
\* and such a step comes at least sample_delay after the one before it
SampleClock ==
    IF SampleAppended
    THEN /\ last_sample_time' = now'
         /\ now' - last_sample_time >= sample_delay
    ELSE last_sample_time' = last_sample_time

\* an update in the capture of `hand`
CaptureUpdate(hand) ==
    (/\ last_call' = "update_calibration"
     /\ calibrating
     /\ calibration_phase \in { "baseline_left", "baseline_right" }
     /\ PhaseHand(calibration_phase) = hand)
        => LET entry == calib_log'[Len(calib_log')]
               expired == now' - PhaseBegan >= baseline_duration
           IN  /\ \A f \in FingerSet \ HandFingers(hand) :
                     baseline_samples'[f] = baseline_samples[f]
               /\ \A h \in HandSet \ { hand } :
                     palm_position_samples'[h] = palm_position_samples[h]
               /\ SampleAppended =>
                     /\ entry.visible[hand]
                     /\ \A f \in HandFingers(hand) :
                           baseline_samples'[f] =
                               Append(baseline_samples[f],
                                      entry.angle + FingerIndex(f))
                     /\ Len(palm_position_samples'[hand]) =
                           Len(palm_position_samples[hand]) + 1
               /\ ~entry.visible[hand] =>
                     /\ baseline_samples' = baseline_samples
                     /\ palm_position_samples' = palm_position_samples
               /\ (calibration_phase' # calibration_phase) <=> expired

\* C30: during the baseline capture of a hand, samples are appended only for
\* the five fingers of that hand and only in updates in which that hand is
\* visible, any two updates that append samples are at least 50 ms apart, an
\* update with the hand absent appends nothing, and the phase ends with the
\* first update 10 s or more after it began, whether the hand is seen or not.
C30_BaselineSampling ==
    [][SampleClock /\ \A hand \in HandSet : CaptureUpdate(hand)]_vars

\* the capture of the left hand ended 10 s after it began, with the hand
\* absent in that update; in an earlier update of the phase only the right
\* hand was visible, and in another one the left hand was sampled
C30_Witness ==
    /\ last_call = "update_calibration"
    /\ Len(calib_log) > 2
    /\ LET entry == calib_log[Len(calib_log)]
       IN  /\ entry.phase = "baseline_left"
           /\ entry.phase_after = "baseline_right"
           /\ ~entry.visible["left"]
    /\ \E i \in 1..Len(calib_log) - 1 :
          /\ calib_log[i].phase = "baseline_left"
          /\ calib_log[i].phase_after = "baseline_left"
          /\ ~calib_log[i].visible["left"]
          /\ calib_log[i].visible["right"]
    /\ Len(baseline_samples["left_pinky"]) > 0
    /\ \A f \in Range(RIGHT_FINGERS) : baseline_samples[f] = << >>

(***************************************************************************)
(* Properties of the baseline angles                                       *)
(***************************************************************************)
CapturePhase(hand) == IF hand = "left" THEN "baseline_left" ELSE "baseline_right"

\* a capture phase begins at the time of the update that enters it
CaptureBegins ==
    (/\ calibration_phase' # calibration_phase
     /\ calibration_phase' \in { "baseline_left", "baseline_right" })
        => baseline_start_time' = now'

\* the update in which the capture of `hand` expires
CaptureExpires(hand) ==
    /\ last_call' = "update_calibration"
    /\ calibrating
    /\ calibration_phase = CapturePhase(hand)
    /\ now' - baseline_start_time >= baseline_duration

\* a baseline that is None gets a value in the expiring update of its hand's
\* capture and in no other step
NoneUntilCaptured ==
    \A f \in FingerSet :
        IsNone(baseline_angles[f])
            => (~IsNone(baseline_angles'[f]) <=> CaptureExpires(HandOf(f)))

LeftBeforeRight ==
    (\E f \in Range(RIGHT_FINGERS) : ~IsNone(baseline_angles[f]))
        => \A f \in Range(LEFT_FINGERS) : ~IsNone(baseline_angles[f])

\* C31: starting from an empty profile, the baseline angle of every finger
\* stays None through the countdown and the capture of its hand, and gets a
\* value, for all five fingers of the hand, exactly in the update in which
\* the capture of that hand expires; the left hand's before the right's.
C31_NoneUntilCaptured ==
    [][CaptureBegins /\ NoneUntilCaptured]_vars /\ []LeftBeforeRight

\* an empty profile whose left baselines were just captured while the right
\* ones are still None, in the capture of the right hand
C31_Witness ==
    /\ IsNone(calibration_file)
    /\ ~is_calibrated
    /\ calibration_phase = "baseline_right"
    /\ baseline_start_time = now
    /\ \A f \in Range(LEFT_FINGERS) : ~IsNone(baseline_angles[f])
    /\ \A f \in Range(RIGHT_FINGERS) : IsNone(baseline_angles[f])

(***************************************************************************)
(* Properties of the start of a session                                    *)
(***************************************************************************)
\* the first tick of the run of ticks in position that ends the log
RunStart(log) ==
    LET misses == { i \in 1..Len(log) : ~log[i].in_position }
    IN  IF misses = {} THEN 1
        ELSE 1 + CHOOSE i \in misses : \A j \in misses : j <= i

\* what the countdown has counted off in the ticks log[first..last]
RECURSIVE CountedOff(_, _, _)
CountedOff(log, first, last) ==
    IF first > last THEN 0
    ELSE log[last].ms * CountdownRate + CountedOff(log, first, last - 1)

\* the game starts in a tick in position that ends a run of such ticks; the
\* first tick of the run began the countdown at 3 s, the later ones have
\* counted it off, and it had not run out a tick earlier
StartsAfterCountdown ==
    (game_state = WAITING_FOR_HANDS /\ game_state' = PLAYING)
        => LET log == wait_log'
               first == RunStart(log)
           IN  /\ first < Len(log)
               /\ log[Len(log)].in_position
               /\ CountedOff(log, first + 1, Len(log)) >= 3 * CountdownScale
               /\ CountedOff(log, first + 1, Len(log) - 1) < 3 * CountdownScale

\* a tick out of position clears the countdown, and the next tick in
\* position begins it at 3 s
MissClearsCountdown ==
    (game_state = WAITING_FOR_HANDS /\ Len(wait_log') = Len(wait_log) + 1)
        => LET tick == wait_log'[Len(wait_log')]
           IN  /\ ~tick.in_position =>
                     /\ waiting_countdown' = None
                     /\ game_state' = WAITING_FOR_HANDS
               /\ (tick.in_position /\ IsNone(waiting_countdown)) =>
                     /\ waiting_countdown' = Some(3 * CountdownScale)
                     /\ game_state' = WAITING_FOR_HANDS

\* C32: from the waiting-for-hands state the game is started only in a tick
\* such that check_hand_positions reported both_in_position in every tick
\* since the 3-second countdown began and the countdown has run out; a tick
\* with both_in_position false clears the countdown, which then begins
\* again at 3 seconds.
C32_SessionGating == [][StartsAfterCountdown /\ MissClearsCountdown]_vars

\* the game started although the hands were out of position earlier in the
\* wait, after a countdown that had been cleared once
C32_Witness ==
    /\ game_state = PLAYING
    /\ Len(wait_log) > 4
    /\ wait_log[1].in_position
    /\ ~wait_log[2].in_position
    /\ wait_log[Len(wait_log)].in_position

(***************************************************************************)
(* Properties of a suppressed crossing                                     *)
(***************************************************************************)
\* the time of the latest PressEvent of finger f, 0 if there is none
LastFired(f) ==
    IF FiredTimes(f) = {} THEN 0
    ELSE CHOOSE t \in FiredTimes(f) : \A u \in FiredTimes(f) : u <= t

\* what a tick does to finger f when it crosses its threshold or stays above
CrossingAndHold(f) ==
    LET seen == tick_log'[Len(tick_log')]
        above == seen.visible[HandOf(f)] /\ f \in seen.above
        fired == \E i \in 1..Len(press_events') : press_events'[i] = f
        crossing == above /\ ~finger_states[f]
        debounced == now' - LastFired(f) >= PRESS_DEBOUNCE_TIME
    IN  \* a crossing inside the debounce interval sets the pressed state,
        \* fires nothing and leaves the debounce clock alone
        /\ (crossing /\ ~debounced) =>
              /\ ~fired
              /\ finger_states'[f]
              /\ last_press_time'[f] = last_press_time[f]
        \* a finger that stays above fires nothing, however long it does
        /\ (above /\ finger_states[f]) => ~fired /\ finger_states'[f]
        \* a crossing fires if the last fired press is old enough, whatever
        \* crossings were suppressed since
        /\ (crossing /\ debounced) => fired

\* C33: a crossing suppressed by the debounce is lost: a finger that crosses
\* its threshold less than 200 ms after its last fired press and stays above
\* fires no PressEvent for that hold at any later tick; the next event needs
\* a release and a new crossing at least 200 ms after the last fired press,
\* and suppressed crossings do not restart the debounce clock.
C33_SuppressedIsLost ==
    [][TickStep => \A f \in FingerSet : CrossingAndHold(f)]_vars

\* left_index fired, crossed again 100 ms later and has stayed above until
\* 250 ms after the press, which is its only one
C33_Witness ==
    \E t0 \in FiredTimes("left_index") :
        /\ FiredTimes("left_index") = { t0 }
        /\ t0 + 100 \in CrossTimes("left_index")
        /\ LastTick.t >= t0 + 250
        /\ \A k \in 1..Len(tick_log) :
              tick_log[k].t >= t0 + 100 => "left_index" \in tick_log[k].above

(***************************************************************************)
(* Properties of a cancelled run                                           *)
(***************************************************************************)
\* the profile of a manager that loaded no file
EmptyProfile ==
    /\ \A f \in FingerSet :
          /\ IsNone(baseline_angles[f])
          /\ angle_thresholds[f] = FINGER_PRESS_ANGLE_THRESHOLD
    /\ \A h \in HandSet : IsNone(calibrated_palm_positions[h])
    /\ calibration_data = NoData

\* C34: cancelling leaves the profile untouched: after start_calibration,
\* updates and cancel_calibration the baseline angles, angle thresholds,
\* reference palm positions and calibration data are what they were before
\* start_calibration.  A manager that is not calibrated loaded no file and
\* has completed no run, so its profile was empty before every start.
C34_CancelKeepsProfile ==
    (last_call = "cancel_calibration" /\ ~is_calibrated) => EmptyProfile

(***************************************************************************)
(* Properties of the reference palm positions                              *)
(***************************************************************************)
\* the reference a run gives hand h: the average of the palm samples it
\* collected for h, None if it collected none
ReferenceOfRun(h) ==
    IF palm_position_samples[h] = << >> THEN None
    ELSE Some(AveragePalm(palm_position_samples[h]))

\* C35: after a calibration run completes, the reference palm position of
\* each hand is the average of the palm samples collected for that hand in
\* the baseline capture of that run, and None if the run collected none; a
\* reference of an earlier calibration or of a loaded profile is neither
\* kept nor saved by the new run.
C35_ReferenceOfThisRun ==
    calibration_phase = "complete" =>
        \A h \in HandSet :
            /\ calibrated_palm_positions[h] = ReferenceOfRun(h)
            /\ WrittenThisSession =>
                  LoadedProfile(Val(calibration_file)).calibrated_palm_positions[h]
                      = ReferenceOfRun(h)

(***************************************************************************)
(* Properties of degenerate bone directions                                *)
(***************************************************************************)
\* what the Angle Estimator returns when a bone direction is near zero
DegenerateAngle == calculate_flexion_angle(DirUp, DirNone)

\* C36: degenerate geometry never produces a press: a tick in which a
\* visible finger has a near-zero bone direction, for which the Angle
\* Estimator returns 90 degrees, fires no PressEvent for that finger and
\* does not set its pressed state.
C36_NoPressFromDegenerate ==
    Len(tick_log) > 0 =>
        \A f \in FingerSet :
            (LastTick.visible[HandOf(f)] /\ finger_angles[f] = DegenerateAngle)
                => /\ ~finger_states[f]
                   /\ \A i \in 1..Len(press_events) : press_events[i] # f

(***************************************************************************)
(* Properties of a trial evaluated in the tick of its press                *)
(***************************************************************************)
\* calculate_trial_metrics was called after the latest update(), for a
\* finger whose press that update returned, with the time of that press
SynchronousTrial ==
    /\ ~IsNone(probe)
    /\ Len(tick_log) > 0
    /\ Trial.press_timestamp_ms = LastTick.t
    /\ \E i \in 1..Len(press_events) : press_events[i] = Trial.pressed_finger
    /\ last_press_timestamp_ms[Trial.pressed_finger] = Trial.press_timestamp_ms

\* C37: when calculate_trial_metrics runs in the tick in which the press
\* fired, with the timestamp of that press, the window queried is
\* [press - 200, press + 400] and every frame in it has a timestamp at or
\* before the press: the 400 ms after the press hold no frame.
C37_NoFrameAfterPress ==
    SynchronousTrial =>
        /\ window_args = Some([ center |-> Trial.press_timestamp_ms,
                                before |-> WINDOW_BEFORE_MS,
                                after |-> WINDOW_AFTER_MS ])
        /\ \A i \in 1..Len(window) :
              window[i].timestamp_ms <= Trial.press_timestamp_ms
        /\ \A i \in 1..Len(frame_buffer) :
              frame_buffer[i].timestamp_ms <= Trial.press_timestamp_ms

\* a trial of right_index evaluated in the tick of its press, over a window
\* of three frames that ends with the frame of that tick
C37_Witness ==
    /\ SynchronousTrial
    /\ Trial.pressed_finger = "right_index"
    /\ Len(window) = 3
    /\ window[3].timestamp_ms = Trial.press_timestamp_ms
    /\ window[3].fingers["right_index"].is_pressed

(***************************************************************************)
(* Properties of one calibration tick                                      *)
(***************************************************************************)
\* C38: whenever a calibration tick calls update_calibration, the hand
\* snapshot it passes is the dict from which HandTracker.update computed
\* the finger angles passed with it, and so shows the same hands
C38_SameFrame ==
    loop_pc = "calibrate" =>
        /\ read_result = loop_tracked
        /\ \A hand_type \in { "left", "right" } :
              hands_visible[hand_type] = ~IsNone(Val(read_result)[hand_type])

(***************************************************************************)
(* Properties of the baselines during the calibration of the fingers       *)
(***************************************************************************)
\* the hand gave no sample in its capture of a session that began without a
\* profile: its baselines are the default and it has no reference position
NeverSeen(hand_type) ==
    /\ IsNone(calibrated_palm_positions[hand_type])
    /\ \A f \in FingerSet :
          HandOf(f) = hand_type => baseline_angles[f] = Some(RatInt(0))

\* C39: whenever the phase is calibrating_finger, each of the ten fingers
\* has a baseline angle that is a number, so that angle - baseline of
\* _update_finger_calibration is defined for the current finger whichever
\* it is, also for a hand that was never visible during its capture.
C39_BaselinesDefined ==
    calibration_phase = "calibrating_finger" =>
        /\ \A f \in FingerSet : ~IsNone(baseline_angles[f])
        /\ current_finger_index \in 0..Len(FINGER_NAMES)

\* the fingers are being calibrated after a run in which the right hand was
\* never sampled while the left hand was
C39_Witness ==
    /\ calibration_phase = "calibrating_finger"
    /\ last_call = "update_calibration"
    /\ IsNone(file_at_start)
    /\ NeverSeen("right")
    /\ ~IsNone(calibrated_palm_positions["left"])

(***************************************************************************)
(* Properties of the two records of the baselines                          *)
(***************************************************************************)
\* C40: after every tick, for every finger of a hand the tick has seen,
\* get_finger_angle_from_baseline returns the angle from baseline that the
\* press detector compared with the finger's threshold in that tick.
C40_SingleBaseline ==
    Len(tick_log) > 0 =>
        \A f \in FingerSet :
            LastTick.visible[HandOf(f)] =>
                get_finger_angle_from_baseline(f) = angle_from_baseline(f)
====
